---------------------------- MODULE Spec2Model ----------------------------
(***************************************************************************)
(* TizenTube hybrid playback: the AVPlayController binding around the      *)
(* native decoder (src/mods/features/avplayController.js, first class of   *)
(* the file; the revision with candidate injection paths is                *)
(* src/unnamed/part_000) and the HybridPlayer orchestrator that drives it  *)
(* (src/mods/features/hybridPlayer.js).                                    *)
(*                                                                         *)
(* JavaScript runs one macrotask (a call from outside, a timer, a native   *)
(* callback, a DOM event) to completion and then drains the microtask      *)
(* queue (the continuations of settled promises) before the next           *)
(* macrotask.  The variable micro is that queue: every macrotask action    *)
(* is guarded by micro = <<>>, and RunMicro pops its head.                 *)
(***************************************************************************)
EXTENDS Integers, Sequences, FiniteSets, TLC

\* Bound: the number of open() calls in one behaviour.
MaxOpens == 2

\* candidatePaths.length
NumCandidatePaths == 3
\* Bound: the number of identity changes handleNavigation acts on in one behaviour.
MaxNav == 2

\* setTimeout and setInterval delays, in ms
SettleDelay == 1000
PollInterval == 500
\* attempts > 10 ends the poll for stream data
PollLimit == 10
ActivationDelay == 2000
InjectionTimeout == 3000
PrepareTimeoutMs == 5000

\* SubtlePlaybackSync: drift thresholds, in ms
WarningDriftThreshold == 150
AggressiveDriftThreshold == 500
HardJumpThreshold == 1500
ResetThreshold == 3500
\* the thresholds of _tick while the codec is avc1
HardJumpThresholdAVC == 3000
AggressiveThresholdAVC == 1000
\* cooldowns and timer delays, in ms
MinAdjustmentInterval == 5000
MinAdjustmentIntervalAggressive == 8000
IntervalMs == 400
GiveUpWait == 15000
ResetLock == 2000
ResetDelay == 50
\* consecutiveForceSyncs > 3 gives up
MaxForceSyncs == 3
MaxSubtleCorrection == 50
ForceNudge == 100
ResetNudge == 10
\* Bound: performance.now() in one behaviour, in ms.
MaxTime == 36000

\* The most descriptors in the adaptiveFormats of a trial.
MaxFormats == 3

\* The most start sequences that reach the manifest phase on one page.
MaxAttempts == 3

\* The time up to which it ticks when the dropped-frame ratio stays critical.
BackoffHorizon == 56000

\* The time up to which the drift corrector ticks beside the orchestrator.
CoopHorizon == 800

VARIABLES
    \* ---- AVPlayController fields
    state,              \* this.state
    isSupported,        \* this.isSupported
    injectionPromise,   \* this.injectionPromise: "null", "pending", "true", "false"
    \* ---- the executor of injectWebAPIs
    injPhase,           \* "none", "wait2s", "script", "done"
    attempt,            \* let attempt (candidate revision); 0 in the single-path one
    \* ---- the page and the platform
    webapis,            \* typeof webapis.avplay !== 'undefined'
    parentApi,          \* window.parent.webapis.avplay is there
    scriptTag,          \* document holds a script[src*="webapis.js"]
    revision,           \* "single": avplayController.js, "multi": part_000
    sess,               \* the open() whose native session is open (0: player closed)
    listener,           \* the open() whose listener object is registered (0: none)
    \* ---- the open() calls
    nOpens,             \* open() calls made so far
    op,                 \* per open() call: its closure variables and promises
    \* ---- the event loop
    micro,              \* microtask queue
    timers,             \* armed setTimeout timers, in arming order
    \* ---- what the last step did (observation only)
    lastOp,             \* [op, id]: the handler that ran
    pre,                \* this.state before it ran
    calls,              \* native calls it made, in order
    trail,              \* assignments to this.state it made, in order
    nativeThrew,        \* a native call it made threw
    escaped,            \* an exception left the handler
    \* ---- what has happened so far (observation only)
    nInj,               \* promises created by injectWebAPIs
    signalled,          \* candidate paths that signalled error or load without object
    injValues,          \* values injectionPromise was resolved with
    \* ---- HybridPlayer fields and the host page
    isAVPlayActive,     \* this.isAVPlayActive
    host,               \* the overrides on videoElement, html5Player and #player-api
    enabled,            \* configRead('enableAVPlay')
    streamData,         \* window.__avplayStreamData: {} when unset, else {what it holds}
    life,               \* "load", "init" (init() ran), "attached" (attachListeners() ran)
    currentVideoId,     \* this.currentVideoId
    nNav,               \* identity changes so far
    syncInterval,       \* this.syncInterval: the last handle setInterval returned (0: null)
    liveSync,           \* handles of the sync intervals that are not cleared
    \* ---- SubtlePlaybackSync
    subtleSync,         \* window.__ttSubtlePlaybackSync: its fields and its timers
    now,                \* performance.now() at the last callback of SubtlePlaybackSync, in ms
    cpuStress,          \* configRead('enableCpuStressOptimization')
    \* ---- one call of a function of the modules, with what it is given and returns
    trial

bindVars == <<state, isSupported, injectionPromise>>
injVars == <<injPhase, attempt>>
envVars == <<webapis, parentApi, scriptTag, revision, sess, listener>>
openVars == <<nOpens, op>>
loopVars == <<micro, timers>>
stepVars == <<lastOp, pre, calls, trail, nativeThrew, escaped>>
histVars == <<nInj, signalled, injValues>>
syncVars == <<subtleSync, now, cpuStress, trial>>
orchVars ==
    <<isAVPlayActive, host, enabled, streamData, life, currentVideoId, nNav,
      syncInterval, liveSync, syncVars>>
vars == <<bindVars, injVars, envVars, openVars, loopVars, stepVars, histVars, orchVars>>

BState == {"NONE", "IDLE", "READY", "PLAYING", "PAUSED"}
Ids == 1..MaxOpens

\* An open() call that was not made yet.
NoOpen ==
    [stage |-> "unused",      \* unused, waitInj, prepare, fulfilled, rejected
     prep |-> "none",         \* the promise around prepareAsync: none, pending, fulfilled, rejected
     isFinalized |-> FALSE,   \* let isFinalized
     cbs |-> {},              \* prepareAsync callbacks the native layer may still invoke
     why |-> "none",          \* what rejected it
     caller |-> "client",     \* the call site
     nav |-> 0,               \* the identity change whose start sequence called it (0: none)
     injSeen |-> "none",      \* how its wait on injectionPromise ended
     fired |-> {},            \* which of success, error, timeout have fired
     owesClose |-> FALSE,     \* called with this.state not NONE, and no native close call since
     unclosed |-> FALSE]      \* it called webapis.avplay.open while owesClose

(***************************************************************************)
(* Timers.  A timer armed earlier with a delay that is not longer fires    *)
(* earlier: that much of real time is kept.                                *)
(***************************************************************************)
Timer(kind, id, ms) == [kind |-> kind, id |-> id, ms |-> ms, n |-> 0]

CanFire(k) ==
    /\ k \in 1..Len(timers)
    /\ \A j \in 1..(k - 1) : timers[j].ms > timers[k].ms

Armed(kind, id) == \E k \in 1..Len(timers) : timers[k].kind = kind /\ timers[k].id = id

Due(kind, id) ==
    \E k \in 1..Len(timers) : timers[k].kind = kind /\ timers[k].id = id /\ CanFire(k)

Without(ts, kind, id) == SelectSeq(ts, LAMBDA t : ~(t.kind = kind /\ t.id = id))

WithoutKind(ts, kind) == SelectSeq(ts, LAMBDA t : t.kind # kind)

(***************************************************************************)
(* The synchronous methods, as functions of what a handler has done so     *)
(* far: fx = [state, sess, calls, trail, nthrew, esc].  ok says whether    *)
(* the native call returns (TRUE) or throws (FALSE).                       *)
(***************************************************************************)
Fx0 ==
    [state |-> state, sess |-> sess, calls |-> <<>>, trail |-> <<>>,
     nthrew |-> FALSE, esc |-> FALSE]

SetState(fx, by, s) ==
    [fx EXCEPT !.trail = Append(@, [by |-> by, from |-> fx.state, to |-> s]),
               !.state = s]

Native(fx, name, ok) ==
    [fx EXCEPT !.calls = Append(@, name), !.nthrew = @ \/ ~ok]

play(fx, ok) ==
    IF fx.state \in {"READY", "PAUSED"}
    THEN IF ok THEN SetState(Native(fx, "play", TRUE), "play", "PLAYING")
               ELSE [Native(fx, "play", FALSE) EXCEPT !.esc = TRUE]
    ELSE fx

pauseAnyState(fx, ok) ==
    IF fx.state # "NONE"
    THEN IF ok THEN SetState(Native(fx, "pause", TRUE), "pause", "PAUSED")
               ELSE [Native(fx, "pause", FALSE) EXCEPT !.esc = TRUE]
    ELSE fx

pause(fx, ok) ==
    IF fx.state = "PLAYING"
    THEN IF ok THEN SetState(Native(fx, "pause", TRUE), "pause", "PAUSED")
               ELSE [Native(fx, "pause", FALSE) EXCEPT !.esc = TRUE]
    ELSE fx

stop(fx, ok) ==
    IF fx.state # "NONE"
    THEN SetState(Native(fx, "stop", ok), "stop", "IDLE")
    ELSE fx

closeUncaught(fx, ok) ==
    IF fx.state # "NONE"
    THEN IF ok THEN SetState([Native(fx, "close", TRUE) EXCEPT !.sess = 0], "close", "NONE")
               ELSE [Native(fx, "close", FALSE) EXCEPT !.sess = 0, !.esc = TRUE]
    ELSE fx

\* The native close ends the native session whether it returns or throws
\* (it throws when the decoder is already in a terminal state).
close(fx, ok) ==
    IF fx.state # "NONE"
    THEN SetState([Native(fx, "close", ok) EXCEPT !.sess = 0], "close", "NONE")
    ELSE fx

seekTo(fx, ok) ==
    IF fx.state \in {"PLAYING", "PAUSED", "READY"}
    THEN [Native(fx, "seekTo", ok) EXCEPT !.esc = @ \/ ~ok]
    ELSE fx

setDisplayRect(fx, ok) ==
    IF fx.state # "NONE"
    THEN [Native(fx, "setDisplayRect", ok) EXCEPT !.esc = @ \/ ~ok]
    ELSE fx

\* A handler's record: who ran, and what it did to the binding.
Commit(what, id, fx) ==
    /\ lastOp' = [op |-> what, id |-> id]
    /\ pre' = state
    /\ state' = fx.state
    /\ sess' = fx.sess
    /\ calls' = fx.calls
    /\ trail' = fx.trail
    /\ nativeThrew' = fx.nthrew
    /\ escaped' = fx.esc

\* Every open() that waits to proceed sees the native close calls of a handler.
NoteClose(o, fx) ==
    [i \in Ids |->
        IF o[i].stage = "waitInj" /\ \E k \in 1..Len(fx.calls) : fx.calls[k] = "close"
        THEN [o[i] EXCEPT !.owesClose = FALSE]
        ELSE o[i]]


(***************************************************************************)
(* Capability discovery and injection.                                     *)
(***************************************************************************)
\* The open() calls suspended on Promise.race([injectionPromise, timeout]),
\* in the order they attached.
Waiting(o) == SelectSeq([k \in Ids |-> k], LAMBDA k : o[k].stage = "waitInj")

Wake(o) == [k \in 1..Len(Waiting(o)) |-> <<"afterInj", Waiting(o)[k]>>]

\* resolve(v) of the injection promise: a settled promise keeps its value.  The
\* suspended open() calls resume in microtasks; their 3 s timers can no longer
\* do anything and are dropped from the model.
resolve(v) ==
    IF injectionPromise \in {"null", "pending"}
    THEN /\ injectionPromise' = v
         /\ injValues' = injValues \cup {v}
         /\ op' = [k \in Ids |->
                     IF op[k].stage = "waitInj" THEN [op[k] EXCEPT !.injSeen = v]
                                                ELSE op[k]]
         /\ micro' = micro \o Wake(op)
         /\ timers' = WithoutKind(WithoutKind(timers, "injection"), "activation")
    ELSE UNCHANGED <<injectionPromise, injValues, op, micro, timers>>

Paths == IF revision = "multi" THEN 1..NumCandidatePaths ELSE {1}

\* checkAndResolve() found nothing; the script at path attempt + 1 has signalled.
\* single: resolve(false).  multi: attempt++; tryNextPath().
nextPath ==
    /\ signalled' = signalled \cup {attempt + 1}
    /\ UNCHANGED <<isSupported, scriptTag>>
    /\ IF revision = "multi" /\ attempt + 1 < NumCandidatePaths
       THEN /\ attempt' = attempt + 1
            /\ injPhase' = "script"
            /\ UNCHANGED <<injectionPromise, injValues, op, micro, timers>>
       ELSE /\ attempt' = IF revision = "multi" THEN attempt + 1 ELSE attempt
            /\ injPhase' = "done"
            /\ resolve("false")

\* checkAndResolve() found webapis.avplay.
found ==
    /\ isSupported' = TRUE
    /\ injPhase' = "done"
    /\ resolve("true")
    /\ UNCHANGED <<attempt, signalled, scriptTag>>

injectWebAPIsUnguarded ==
    /\ nInj' = nInj + 1
    /\ signalled' = {}
    /\ attempt' = 0
    /\ UNCHANGED <<op, micro>>
    /\ IF webapis
       THEN /\ isSupported' = TRUE
            /\ injectionPromise' = "true"
            /\ injValues' = injValues \cup {"true"}
            /\ injPhase' = "done"
            /\ UNCHANGED <<scriptTag, timers>>
       ELSE /\ injectionPromise' = "pending"
            /\ UNCHANGED <<isSupported, injValues>>
            /\ scriptTag' = TRUE
            /\ IF revision = "single" /\ scriptTag
               THEN /\ injPhase' = "wait2s"
                    /\ timers' = Append(timers, Timer("activation", 0, ActivationDelay))
               ELSE /\ injPhase' = "script"
                    /\ UNCHANGED timers

\* injectWebAPIs(): writes isSupported, injectionPromise, the executor's variables.
injectWebAPIs ==
    IF injectionPromise # "null"
    THEN UNCHANGED <<isSupported, injectionPromise, injPhase, attempt, scriptTag,
                     timers, nInj, signalled, injValues, op, micro>>
    ELSE /\ nInj' = nInj + 1
         /\ signalled' = {}
         /\ attempt' = 0
         /\ UNCHANGED <<op, micro>>
         /\ IF webapis
            THEN /\ isSupported' = TRUE
                 /\ injectionPromise' = "true"
                 /\ injValues' = injValues \cup {"true"}
                 /\ injPhase' = "done"
                 /\ UNCHANGED <<scriptTag, timers>>
            ELSE /\ injectionPromise' = "pending"
                 /\ UNCHANGED <<isSupported, injValues>>
                 /\ scriptTag' = TRUE
                 /\ IF revision = "single" /\ scriptTag
                    THEN /\ injPhase' = "wait2s"
                         /\ timers' = Append(timers, Timer("activation", 0, ActivationDelay))
                    ELSE /\ injPhase' = "script"
                         /\ UNCHANGED timers

\* init(): the current window, then (multi) the parent window, then injection.
init ==
    IF webapis
    THEN /\ isSupported' = TRUE
         /\ UNCHANGED <<webapis, injectionPromise, injPhase, attempt, scriptTag,
                        timers, nInj, signalled, injValues, op, micro>>
    ELSE IF revision = "multi" /\ parentApi
    THEN /\ isSupported' = TRUE
         /\ webapis' = TRUE
         /\ UNCHANGED <<injectionPromise, injPhase, attempt, scriptTag,
                        timers, nInj, signalled, injValues, op, micro>>
    ELSE /\ injectWebAPIs
         /\ UNCHANGED webapis

\* A handler that leaves the binding's state machine alone.
Quiet(what, id) == Commit(what, id, Fx0)

\* setTimeout(() => { if (!checkAndResolve()) performInjection(true) }, 2000)
ActivationTimer ==
    /\ micro = <<>>
    /\ UNCHANGED orchVars
    /\ injPhase = "wait2s"
    /\ Due("activation", 0)
    /\ IF webapis
       THEN found
       ELSE /\ injPhase' = "script"
            /\ scriptTag' = TRUE
            /\ timers' = Without(timers, "activation", 0)
            /\ UNCHANGED <<isSupported, injectionPromise, injValues, op, micro,
                           attempt, signalled>>
    /\ Quiet("other", 0)
    /\ UNCHANGED <<webapis, parentApi, revision, listener, nOpens, nInj>>

\* script.onload: the script may or may not have defined webapis.avplay.
ScriptLoad(defines) ==
    /\ micro = <<>>
    /\ UNCHANGED orchVars
    /\ injPhase = "script"
    /\ webapis' = (webapis \/ defines)
    /\ IF webapis' THEN found ELSE nextPath
    /\ Quiet("other", 0)
    /\ UNCHANGED <<parentApi, revision, listener, nOpens, nInj>>

\* script.onerror
ScriptError ==
    /\ micro = <<>>
    /\ UNCHANGED orchVars
    /\ injPhase = "script"
    /\ nextPath
    /\ Quiet("other", 0)
    /\ UNCHANGED <<webapis, parentApi, revision, listener, nOpens, nInj>>

\* The platform object appears by other means than the injected script's load
\* (an existing tag activates, the host page provides it).
ApiAppears ==
    /\ micro = <<>>
    /\ UNCHANGED orchVars
    /\ ~webapis
    /\ webapis' = TRUE
    /\ Quiet("other", 0)
    /\ UNCHANGED <<isSupported, injectionPromise, injVars, parentApi, scriptTag,
                   revision, listener, openVars, loopVars, histVars>>

ClientInit ==
    /\ micro = <<>>
    /\ UNCHANGED orchVars
    /\ init
    /\ Quiet("init", 0)
    /\ UNCHANGED <<parentApi, revision, listener, nOpens>>

ClientInject ==
    /\ micro = <<>>
    /\ UNCHANGED orchVars
    /\ injectWebAPIs
    /\ Quiet("injectWebAPIs", 0)
    /\ UNCHANGED <<webapis, parentApi, revision, listener, nOpens>>


(***************************************************************************)
(* open(url).                                                              *)
(***************************************************************************)
\* Where the synchronous part of open() may throw.
FailPoints ==
    {"none", "open", "setDisplayRect", "setDisplayMethod", "setListener", "prepareAsync"}

\* The continuation of the caller of open() i, once its promise has settled.
Notify(o, i) == IF o[i].caller = "client" THEN <<>> ELSE << <<"settled", i>> >>

\* open() from the re-check of support on (after the wait on injection, if any),
\* up to the await of the prepare promise.  o, m, t: op, micro and timers as the
\* caller of this definition leaves them; f: the native call that throws;
\* okc: whether the native close of the implicit close() returns.
OpenBody(what, fxb, i, o, m, t, f, okc) ==
    LET sup == isSupported \/ webapis
        fxClose == close(fxb, okc)
        fxOpen == Native(fxClose, "open", f # "open")
        fxIdle == SetState([fxOpen EXCEPT !.sess = i], "open", "IDLE")
        fxRect == Native(fxIdle, "setDisplayRect", f # "setDisplayRect")
        fxMeth == Native(fxRect, "setDisplayMethod", f # "setDisplayMethod")
        fxLis == Native(fxMeth, "setListener", f # "setListener")
        fxPrep == Native(fxLis, "prepareAsync", f # "prepareAsync")
        fx == CASE ~sup -> fxb
                [] f = "open" -> SetState(fxOpen, "openFailed", "NONE")
                [] f = "setDisplayRect" -> SetState(fxRect, "openFailed", "NONE")
                [] f = "setDisplayMethod" -> SetState(fxMeth, "openFailed", "NONE")
                [] f = "setListener" -> fxLis
                [] OTHER -> fxPrep
        inExecutor == sup /\ f \in {"none", "setListener", "prepareAsync"}
        armed == sup /\ f \in {"none", "prepareAsync"}
        me == [o[i] EXCEPT
                 !.stage = IF inExecutor THEN "prepare" ELSE "rejected",
                 !.why = CASE ~sup -> "unsupported"
                           [] f # "none" -> "native"
                           [] OTHER -> "none",
                 !.prep = CASE ~inExecutor -> "none"
                            [] f = "none" -> "pending"
                            [] OTHER -> "rejected",
                 !.cbs = IF sup /\ f = "none" THEN {"success", "error"} ELSE {},
                 !.owesClose = FALSE,
                 !.unclosed = sup /\ o[i].owesClose /\ fxb.state = "NONE"]
        o1 == [o EXCEPT ![i] = me]
    IN  /\ isSupported' = sup
        /\ Commit(what, i, fx)
        /\ op' = NoteClose(o1, fx)
        /\ listener' = IF armed THEN i ELSE listener
        /\ timers' = IF armed THEN Append(t, Timer("prepare", i, PrepareTimeoutMs)) ELSE t
        /\ micro' = CASE ~inExecutor -> m \o Notify(o1, i)
                      [] f = "none" -> m
                      [] OTHER -> Append(m, <<"prepSettled", i>>)

\* The call of open(): runs to the first await.
OpenCall(what, fxb, c, n, m, t, f, okc) ==
    LET i == nOpens + 1
        o == [op EXCEPT ![i] = [NoOpen EXCEPT !.stage = "waitInj", !.caller = c, !.nav = n,
                                              !.owesClose = (fxb.state # "NONE")]]
    IN  /\ nOpens < MaxOpens
        /\ nOpens' = i
        /\ CASE injectionPromise = "null" ->
                  OpenBody(what, fxb, i, o, m, t, f, okc)
             [] injectionPromise = "pending" ->
                  /\ op' = NoteClose(o, fxb)
                  /\ timers' = Append(t, Timer("injection", i, InjectionTimeout))
                  /\ micro' = m
                  /\ Commit(what, i, fxb)
                  /\ UNCHANGED <<isSupported, listener>>
             [] OTHER ->
                  /\ op' = NoteClose([o EXCEPT ![i].injSeen = injectionPromise], fxb)
                  /\ micro' = Append(m, <<"afterInj", i>>)
                  /\ timers' = t
                  /\ Commit(what, i, fxb)
                  /\ UNCHANGED <<isSupported, listener>>

\* The continuation of open() after its await of the prepare promise: return, or
\* the catch block.
PrepSettled(i, m) ==
    /\ IF op[i].prep = "fulfilled"
       THEN /\ Quiet("openDone", i)
            /\ op' = [op EXCEPT ![i].stage = "fulfilled"]
       ELSE /\ Commit("openDone", i, SetState(Fx0, "openFailed", "NONE"))
            /\ op' = [op EXCEPT ![i].stage = "rejected"]
    /\ micro' = m \o Notify(op, i)
    /\ UNCHANGED <<isSupported, listener, timers>>

\* resolve() / reject(e) of the prepare promise of open() i.
SettlePrep(o, i, v, why) ==
    IF o[i].prep = "pending"
    THEN [o EXCEPT ![i].prep = v, ![i].why = why]
    ELSE o

Settles(o, i) == IF o[i].prep = "pending" THEN << <<"prepSettled", i>> >> ELSE <<>>

InjTimeoutHard(i) ==
    /\ micro = <<>>
    /\ op[i].stage = "waitInj"
    /\ Due("injection", i)
    /\ timers' = Without(timers, "injection", i)
    /\ op' = [op EXCEPT ![i].injSeen = "timeout", ![i].stage = "rejected",
                        ![i].why = "unsupported"]
    /\ micro' = Notify(op, i)
    /\ Quiet("openBody", i)
    /\ UNCHANGED <<isSupported, injectionPromise, injVars, webapis, parentApi, scriptTag,
                   revision, listener, nOpens, histVars, orchVars>>

\* The 3 s timer of the race fires first: the catch, then on to the re-check.
InjTimeout(i) ==
    /\ micro = <<>>
    /\ op[i].stage = "waitInj"
    /\ Due("injection", i)
    /\ timers' = Without(timers, "injection", i)
    /\ op' = [op EXCEPT ![i].injSeen = "timeout"]
    /\ micro' = << <<"afterInj", i>> >>
    /\ Quiet("injTimeout", i)
    /\ UNCHANGED <<isSupported, injectionPromise, injVars, webapis, parentApi, scriptTag,
                   revision, listener, nOpens, histVars, orchVars>>

\* The success callback of prepareAsync.
prepareSuccessUnguarded(i) ==
    /\ op' = [SettlePrep(op, i, "fulfilled", "none") EXCEPT
                ![i].isFinalized = TRUE,
                ![i].cbs = @ \ {"success"},
                ![i].fired = @ \cup {"success"}]
    /\ timers' = Without(timers, "prepare", i)
    /\ micro' = Settles(op, i)
    /\ Commit("prepareSuccess", i, SetState(Fx0, "prepareSuccess", "READY"))

prepareSuccess(i) ==
    IF op[i].isFinalized
    THEN /\ op' = [op EXCEPT ![i].cbs = @ \ {"success"}, ![i].fired = @ \cup {"success"}]
         /\ Quiet("prepareSuccess", i)
         /\ UNCHANGED <<timers, micro>>
    ELSE /\ op' = [SettlePrep(op, i, "fulfilled", "none") EXCEPT
                     ![i].isFinalized = TRUE,
                     ![i].cbs = @ \ {"success"},
                     ![i].fired = @ \cup {"success"}]
         /\ timers' = Without(timers, "prepare", i)
         /\ micro' = Settles(op, i)
         /\ Commit("prepareSuccess", i, SetState(Fx0, "prepareSuccess", "READY"))

\* The error callback of prepareAsync.
prepareError(i) ==
    IF op[i].isFinalized
    THEN /\ op' = [op EXCEPT ![i].cbs = @ \ {"error"}, ![i].fired = @ \cup {"error"}]
         /\ Quiet("prepareError", i)
         /\ UNCHANGED <<timers, micro>>
    ELSE /\ op' = [SettlePrep(op, i, "rejected", "error") EXCEPT
                     ![i].isFinalized = TRUE,
                     ![i].cbs = @ \ {"error"},
                     ![i].fired = @ \cup {"error"}]
         /\ timers' = Without(timers, "prepare", i)
         /\ micro' = Settles(op, i)
         /\ Quiet("prepareError", i)

prepareTimeoutNoReject(i) ==
    /\ timers' = Without(timers, "prepare", i)
    /\ Quiet("prepareTimeout", i)
    /\ op' = [op EXCEPT ![i].fired = @ \cup {"timeout"}]
    /\ UNCHANGED micro

\* The callback of the 5 s timer.
prepareTimeout(i) ==
    /\ timers' = Without(timers, "prepare", i)
    /\ Quiet("prepareTimeout", i)
    /\ IF op[i].isFinalized
       THEN /\ op' = [op EXCEPT ![i].fired = @ \cup {"timeout"}]
            /\ UNCHANGED micro
       ELSE /\ op' = [SettlePrep(op, i, "rejected", "timeout") EXCEPT
                        ![i].isFinalized = TRUE,
                        ![i].fired = @ \cup {"timeout"}]
            /\ micro' = Settles(op, i)

\* The native layer invokes a prepare callback of the session it has open, each
\* at most once, in any order.
PrepareSuccess(i) ==
    /\ micro = <<>>
    /\ "success" \in op[i].cbs
    /\ sess = i
    /\ prepareSuccess(i)
    /\ UNCHANGED <<isSupported, injectionPromise, injVars, webapis, parentApi, scriptTag,
                   revision, listener, nOpens, histVars, orchVars>>

PrepareError(i) ==
    /\ micro = <<>>
    /\ "error" \in op[i].cbs
    /\ sess = i
    /\ prepareError(i)
    /\ UNCHANGED <<isSupported, injectionPromise, injVars, webapis, parentApi, scriptTag,
                   revision, listener, nOpens, histVars, orchVars>>

PrepareTimeout(i) ==
    /\ micro = <<>>
    /\ Due("prepare", i)
    /\ prepareTimeout(i)
    /\ UNCHANGED <<isSupported, injectionPromise, injVars, webapis, parentApi, scriptTag,
                   revision, listener, nOpens, histVars, orchVars>>

\* listener.onerror of the registered listener: _emit('error'), reject(error).
ListenerError ==
    /\ micro = <<>>
    /\ listener # 0
    /\ sess # 0
    /\ op' = SettlePrep(op, listener, "rejected", "listener")
    /\ micro' = Settles(op, listener)
    /\ Quiet("onerror", listener)
    /\ UNCHANGED <<isSupported, injectionPromise, injVars, webapis, parentApi, scriptTag,
                   revision, listener, nOpens, timers, histVars, orchVars>>

\* listener.onstreamcompleted: _emit('ended'), this.stop().
StreamCompleted(ok) ==
    /\ micro = <<>>
    /\ listener # 0
    /\ sess # 0
    /\ Commit("onstreamcompleted", listener, stop(Fx0, ok))
    /\ UNCHANGED <<isSupported, injectionPromise, injVars, webapis, parentApi, scriptTag,
                   revision, listener, openVars, loopVars, histVars, orchVars>>

(***************************************************************************)
(* Calls of the binding's methods by a client.                             *)
(***************************************************************************)
Open(f, okc) ==
    /\ micro = <<>>
    /\ OpenCall(IF injectionPromise = "null" THEN "openBody" ELSE "openCall", Fx0,
                "client", 0, micro, timers, f, okc)
    /\ UNCHANGED <<injectionPromise, injVars, webapis, parentApi, scriptTag, revision,
                   histVars, orchVars>>

Call(what, fx) ==
    /\ micro = <<>>
    /\ Commit(what, 0, fx)
    /\ op' = NoteClose(op, fx)
    /\ UNCHANGED <<isSupported, injectionPromise, injVars, webapis, parentApi, scriptTag,
                   revision, listener, nOpens, loopVars, histVars, orchVars>>

Play(ok) == Call("play", play(Fx0, ok))

Pause(ok) == Call("pause", pause(Fx0, ok))

Stop(ok) == Call("stop", stop(Fx0, ok))

Close(ok) == Call("close", close(Fx0, ok))

SeekTo(ok) == Call("seekTo", seekTo(Fx0, ok))

SetDisplayRect(ok) == Call("setDisplayRect", setDisplayRect(Fx0, ok))


(***************************************************************************)
(* The microtasks of open().                                               *)
(***************************************************************************)
RunAfterInj(f, okc) ==
    /\ micro # <<>>
    /\ Head(micro)[1] = "afterInj"
    /\ OpenBody("openBody", Fx0, Head(micro)[2], op, Tail(micro), timers, f, okc)
    /\ UNCHANGED <<injectionPromise, injVars, webapis, parentApi, scriptTag, revision,
                   nOpens, histVars, orchVars>>

RunPrepSettled ==
    /\ micro # <<>>
    /\ Head(micro)[1] = "prepSettled"
    /\ PrepSettled(Head(micro)[2], Tail(micro))
    /\ UNCHANGED <<injectionPromise, injVars, webapis, parentApi, scriptTag, revision,
                   nOpens, histVars, orchVars>>


(***************************************************************************)
(* SubtlePlaybackSync (src/mods/features/playbackSync.js).  The positions  *)
(* of the video element and its frame counters belong to the page: what a  *)
(* tick reads of them is its input.                                         *)
(***************************************************************************)
Max(a, b) == IF a >= b THEN a ELSE b

\* new SubtlePlaybackSync(), before window.__ttSubtlePlaybackSync holds it.
SyncNew ==
    [exists |-> FALSE,               \* window.__ttSubtlePlaybackSync holds the object
     videoEl |-> FALSE,              \* this.videoEl is set (and the listeners are added)
     running |-> FALSE,              \* this._running
     enabled |-> TRUE,               \* this.enabled
     ticks |-> 0,                    \* timeouts of _schedule that are scheduled
     tickDue |-> 0,                  \* when the last of them is due
     resets |-> 0,                   \* timeouts of _performEmergencyReset that are scheduled
     resetDue |-> 0,                 \* when the last of them is due
     events |-> 0,                   \* seeked and play events the element still owes
     lastAdjustmentTime |-> 0,       \* this.lastAdjustmentTime
     consecutiveForceSyncs |-> 0,    \* this.consecutiveForceSyncs
     wrote |-> "none",               \* observation: the tier that wrote currentTime in the last step
     forcedRun |-> 0,                \* observation: forced corrections in a row
     gaveUpAt |-> -1]                \* observation: when the last give-up was entered

Quietly(s) == [s EXCEPT !.wrote = "none"]

resetTrackingAndCooldown(s) ==
    IF s.videoEl THEN [s EXCEPT !.consecutiveForceSyncs = 0, !.lastAdjustmentTime = 0] ELSE s

resetTracking(s) ==
    IF s.videoEl THEN [s EXCEPT !.consecutiveForceSyncs = 0] ELSE s

schedule(s, t) ==
    IF s.running THEN [s EXCEPT !.ticks = @ + 1, !.tickDue = t + IntervalMs] ELSE s

start(s, t) ==
    IF ~s.running THEN schedule(resetTracking([s EXCEPT !.running = TRUE]), t) ELSE s

\* stop() of SubtlePlaybackSync: clearTimeout(this.timerId) cancels the timeout
\* scheduled last.
stopSync(s) ==
    [s EXCEPT !.ticks = IF @ > 0 THEN @ - 1 ELSE 0, !.running = FALSE]

detach(s) == [stopSync(s) EXCEPT !.videoEl = FALSE]

attach(s, t) ==
    start([(IF s.videoEl THEN detach(s) ELSE s) EXCEPT !.videoEl = TRUE, !.enabled = cpuStress], t)

\* What _tick reads of the page: whether the element plays at a rate above 1.2,
\* the dropped-frame ratio of the period (low: at most droppedFrameRateWarning,
\* warn: above it, crit: above droppedFrameRateCritical), the absolute drift in
\* ms and whether the codec is avc1.  The codec is read only to move the two
\* thresholds the drifts 700 and 1800 lie between, and nothing is read of a
\* tick that returns at the first check.
Drops == {"low", "warn", "crit"}

Drifts == {0, 200, 700, 1800, 4000}

TickInputs ==
    {in \in [eligible : BOOLEAN, drop : Drops, absDrift : Drifts, avc : BOOLEAN] :
        /\ in.avc => in.absDrift \in {700, 1800}
        /\ ~in.eligible => (in.drop = "low" /\ in.absDrift = 0)}

\* The tiers with the aggressive threshold tested before the hard-jump threshold.
TierAggressiveFirst(absDrift, avc, hasStress) ==
    LET dynamicHardJumpThreshold == IF avc THEN HardJumpThresholdAVC ELSE HardJumpThreshold
        dynamicAggressiveThreshold == IF avc THEN AggressiveThresholdAVC
                                            ELSE AggressiveDriftThreshold
    IN  CASE absDrift > ResetThreshold -> "RESET"
          [] absDrift > dynamicAggressiveThreshold
                \/ (absDrift > WarningDriftThreshold /\ hasStress) -> "AGGRESSIVE"
          [] absDrift > dynamicHardJumpThreshold -> "HARD"
          [] absDrift > WarningDriftThreshold -> "SUBTLE"
          [] OTHER -> "none"

\* The tier of steps 4 A-D of _tick for a drift.
Tier(absDrift, avc, hasStress) ==
    LET dynamicHardJumpThreshold == IF avc THEN HardJumpThresholdAVC ELSE HardJumpThreshold
        dynamicAggressiveThreshold == IF avc THEN AggressiveThresholdAVC
                                            ELSE AggressiveDriftThreshold
    IN  CASE absDrift > ResetThreshold -> "RESET"
          [] absDrift > dynamicHardJumpThreshold -> "HARD"
          [] absDrift > dynamicAggressiveThreshold
                \/ (absDrift > WarningDriftThreshold /\ hasStress) -> "AGGRESSIVE"
          [] absDrift > WarningDriftThreshold -> "SUBTLE"
          [] OTHER -> "none"

\* What steps 4 A-D of _tick compute, in ms, from p: the playback rate in
\* tenths, the baseline position, the time since the baseline, the position of
\* the element, whether the codec is avc1 and whether frames are being dropped.
Min(a, b) == IF a <= b THEN a ELSE b

Abs(x) == IF x < 0 THEN -x ELSE x

Sign(x) == IF x < 0 THEN -1 ELSE IF x > 0 THEN 1 ELSE 0

expectedTime(p) == p.baseline + (p.elapsed * p.rate10) \div 10

drift(p) == expectedTime(p) - p.actual

\* The positions with the subtle step left without its cap.
targetTimeUncapped(p, tier) ==
    CASE tier = "FORCE" -> p.actual + ForceNudge
      [] tier = "RESET" -> p.actual + ResetNudge
      [] tier = "HARD" -> expectedTime(p)
      [] tier = "AGGRESSIVE" -> p.actual + (drift(p) * 4) \div 10
      [] tier = "SUBTLE" -> p.actual + Sign(drift(p)) * ((Abs(drift(p)) * 2) \div 10)
      [] OTHER -> p.actual

\* The position the tier writes to currentTime; the position itself when it
\* writes nothing.
targetTime(p, tier) ==
    CASE tier = "FORCE" -> p.actual + ForceNudge
      [] tier = "RESET" -> p.actual + ResetNudge
      [] tier = "HARD" -> expectedTime(p)
      [] tier = "AGGRESSIVE" -> p.actual + (drift(p) * 4) \div 10
      [] tier = "SUBTLE" ->
            p.actual + Sign(drift(p)) * Min((Abs(drift(p)) * 2) \div 10, MaxSubtleCorrection)
      [] OTHER -> p.actual

correction(p) ==
    LET tier == Tier(Abs(drift(p)), p.avc, p.stress)
    IN  [drift |-> drift(p), tier |-> tier, target |-> targetTime(p, tier)]

(***************************************************************************)
(* _tick and resetTracking with the positions and times they read and      *)
(* write, in ms.  s: the fields of the corrector; el: the element, its     *)
(* playbackRate in tenths, and what the player reports of dropped frames   *)
(* and of the codec; t: performance.now().  The result holds both after    *)
(* the call and the tier that wrote currentTime.                           *)
(***************************************************************************)
Unchanged(s, el) == [s |-> s, el |-> el, wrote |-> "none"]

\* What _tick takes for the drift computation.
Reading(s, el, t) ==
    [baseline |-> s.lastBaselineCurrentTime, elapsed |-> t - s.lastBaselineTime,
     rate10 |-> el.rate10, actual |-> el.currentTime, avc |-> el.avc,
     stress |-> el.drop # "low"]

\* _applyCorrection(targetTime, drift, mode) at time t.
applyCorrectionAt(s, el, t, target, mode) ==
    [s |-> [s EXCEPT !.lastAdjustmentTime = t, !.lastBaselineTime = t,
                     !.lastBaselineCurrentTime = target],
     el |-> [el EXCEPT !.currentTime = target],
     wrote |-> mode]

\* _performEmergencyReset(), up to its timeout.
performEmergencyResetAt(s, el) ==
    [s |-> s,
     el |-> [el EXCEPT !.paused = TRUE, !.currentTime = @ + ResetNudge],
     wrote |-> "RESET"]

resetCountersOnly(s, el, t) ==
    IF s.videoEl
    THEN [s EXCEPT !.consecutiveHighDrifts = 0, !.consecutiveForceSyncs = 0]
    ELSE s

\* resetTracking() at time t.
resetTrackingAt(s, el, t) ==
    IF s.videoEl
    THEN [s EXCEPT !.lastBaselineTime = t, !.lastBaselineCurrentTime = el.currentTime,
                   !.consecutiveHighDrifts = 0, !.consecutiveForceSyncs = 0]
    ELSE s

\* _tick() from the rate check on.
tickFromRateCheck(s, el, t) ==
    LET timeSinceLastAdjustment == t - s.lastAdjustmentTime
        hasStress == el.drop # "low"
        requiredInterval == IF hasStress THEN MinAdjustmentIntervalAggressive
                                         ELSE MinAdjustmentInterval
        forced == [s EXCEPT !.consecutiveForceSyncs = @ + 1]
        calmed == [s EXCEPT !.consecutiveForceSyncs = IF @ > 0 THEN @ - 1 ELSE 0]
        p == Reading(s, el, t)
        tier == Tier(Abs(drift(p)), p.avc, hasStress)
    IN  CASE el.rate10 <= 12 -> Unchanged(s, el)
          [] timeSinceLastAdjustment < MinAdjustmentIntervalAggressive -> Unchanged(s, el)
          [] timeSinceLastAdjustment < requiredInterval -> Unchanged(s, el)
          [] el.drop = "crit" /\ forced.consecutiveForceSyncs > MaxForceSyncs ->
                Unchanged([s EXCEPT !.lastAdjustmentTime = t + GiveUpWait,
                                    !.consecutiveForceSyncs = 0], el)
          [] el.drop = "crit" ->
                applyCorrectionAt(forced, el, t, targetTime(p, "FORCE"), "FORCE")
          [] tier = "RESET" -> performEmergencyResetAt(calmed, el)
          [] tier = "none" -> Unchanged(calmed, el)
          [] OTHER -> applyCorrectionAt(calmed, el, t, targetTime(p, tier), tier)

\* _tick() without its check of the element: a paused or ended element is corrected.
tickIgnoringPaused(s, el, t) == tickFromRateCheck(s, el, t)

\* _tick() at time t.
tickAt(s, el, t) ==
    IF ~s.videoEl \/ el.paused \/ el.ended THEN Unchanged(s, el)
    ELSE tickFromRateCheck(s, el, t)

\* The callback of the timeout of _schedule.
timeoutAt(s, el, t) == IF s.enabled THEN tickAt(s, el, t) ELSE Unchanged(s, el)

\* _applyCorrection: the write of currentTime, after which the element owes a
\* seeked event.
applyCorrection(s, t, mode) ==
    [s EXCEPT !.wrote = mode, !.events = 1, !.lastAdjustmentTime = t]

performEmergencyReset(s, t) ==
    [s EXCEPT !.wrote = "RESET", !.events = 1, !.resets = @ + 1, !.resetDue = t + ResetDelay]

\* _tick() at time t.
tick(s, t, in) ==
    LET timeSinceLastAdjustment == t - s.lastAdjustmentTime
        hasStress == in.drop # "low"
        requiredInterval == IF hasStress THEN MinAdjustmentIntervalAggressive
                                         ELSE MinAdjustmentInterval
        forced == s.consecutiveForceSyncs + 1
        calmed == [s EXCEPT !.consecutiveForceSyncs = IF @ > 0 THEN @ - 1 ELSE 0,
                            !.forcedRun = 0]
        tier == Tier(in.absDrift, in.avc, hasStress)
    IN  CASE ~s.videoEl \/ ~in.eligible -> s
          [] timeSinceLastAdjustment < MinAdjustmentIntervalAggressive -> s
          [] timeSinceLastAdjustment < requiredInterval -> s
          [] in.drop = "crit" /\ forced > MaxForceSyncs ->
                [s EXCEPT !.lastAdjustmentTime = t + GiveUpWait, !.consecutiveForceSyncs = 0,
                          !.forcedRun = 0, !.gaveUpAt = t]
          [] in.drop = "crit" ->
                [applyCorrection(s, t, "FORCE") EXCEPT !.consecutiveForceSyncs = forced,
                                                       !.forcedRun =
                                                           IF s.forcedRun > MaxForceSyncs
                                                           THEN s.forcedRun
                                                           ELSE s.forcedRun + 1]
          [] tier = "RESET" -> performEmergencyReset(calmed, t)
          [] tier = "none" -> calmed
          [] OTHER -> applyCorrection(calmed, t, tier)

\* A callback of SubtlePlaybackSync that leaves the binding alone.
SyncStep(what, s, t) ==
    /\ micro = <<>>
    /\ Quiet(what, 0)
    /\ subtleSync' = s
    /\ now' = t
    /\ UNCHANGED <<isSupported, injectionPromise, injVars, webapis, parentApi, scriptTag,
                   revision, listener, openVars, loopVars, histVars, isAVPlayActive, host,
                   enabled, streamData, life, currentVideoId, nNav, syncInterval, liveSync>>

\* The interval at the end of playbackSync.js finds the video element.
SyncAttach ==
    /\ ~subtleSync.exists
    /\ SyncStep("attach", attach([SyncNew EXCEPT !.exists = TRUE], now), now)
    /\ UNCHANGED <<cpuStress, trial>>

\* detach(), called on the attached object.
SyncDetach ==
    /\ subtleSync.videoEl
    /\ SyncStep("detach", Quietly(detach(subtleSync)), now)
    /\ UNCHANGED <<cpuStress, trial>>

\* The timeout of _schedule fires: _tick() if enabled, then _schedule().
SyncTimer(in) ==
    /\ subtleSync.ticks > 0
    /\ subtleSync.resets = 0
    /\ LET t == Max(now, subtleSync.tickDue)
           fired == Quietly([subtleSync EXCEPT !.ticks = @ - 1])
       IN  SyncStep("tick", schedule(IF fired.enabled THEN tick(fired, t, in) ELSE fired, t), t)
    /\ UNCHANGED <<cpuStress, trial>>

\* The timeout of _performEmergencyReset fires.
ResetTimeout ==
    /\ subtleSync.resets > 0
    /\ LET t == Max(now, subtleSync.resetDue)
           fired == Quietly([subtleSync EXCEPT !.resets = @ - 1])
       IN  SyncStep("resetTimeout",
                    IF fired.videoEl
                    THEN [resetTracking(fired) EXCEPT !.events = 1,
                                                      !.lastAdjustmentTime = t + ResetLock]
                    ELSE fired,
                    t)
    /\ UNCHANGED <<cpuStress, trial>>

\* The element dispatches the seeked or play event that a write of currentTime
\* or a play() has caused.
OnSeeked ==
    /\ subtleSync.events > 0
    /\ SyncStep("onSeeked", Quietly(resetTracking([subtleSync EXCEPT !.events = 0])), now)
    /\ UNCHANGED <<cpuStress, trial>>

\* The user seeks or changes the playback rate, at a moment when the handler
\* has something to reset or a give-up is in force.
OnRateChange ==
    /\ subtleSync.videoEl
    /\ subtleSync.consecutiveForceSyncs > 0 \/ subtleSync.gaveUpAt >= 0
    /\ SyncStep("onRateChange", Quietly(resetTracking(subtleSync)), now)
    /\ UNCHANGED <<cpuStress, trial>>

\* enableCpuStressOptimization is switched in the settings.
SyncConfigChange(v) ==
    /\ v # cpuStress
    /\ cpuStress' = v
    /\ UNCHANGED trial
    /\ SyncStep("onConfigChange",
                Quietly(IF subtleSync.videoEl THEN [subtleSync EXCEPT !.enabled = v]
                                              ELSE subtleSync),
                now)

(***************************************************************************)
(* The stream selectors of HybridPlayer and signatureDecrypter.  A          *)
(* descriptor's mimeType is kept as its type and its codec; its url and its *)
(* signatureCipher are "" when it has none.                                 *)
(***************************************************************************)
DefaultHeight == 1080

NaN == -1

\* parseInt of a value of preferredVideoQuality.
parseInt(q) ==
    CASE q = "480" -> 480
      [] q = "720" -> 720
      [] q = "1080" -> 1080
      [] OTHER -> NaN

\* signatureDecrypter.decrypt(format): the object it returns is format itself,
\* with url assigned when the cipher gives a url and a signature.
decrypt(format) ==
    IF format.url # "" THEN format
    ELSE IF format.cipher = "" THEN format
    ELSE IF format.cipher = "invalid" THEN format
    ELSE [format EXCEPT !.url = "deciphered"]

decryptedFormats(formats) == [i \in 1..Len(formats) |-> decrypt(formats[i])]

compareHeightOnly(type, a, b) ==
    IF type = "video" THEN b.height - a.height ELSE b.bitrate - a.bitrate

\* The compare functions of the two sorts: below 0 when a goes before b.
compare(type, a, b) ==
    IF type = "video"
    THEN IF b.height # a.height THEN b.height - a.height ELSE b.fps - a.fps
    ELSE b.bitrate - a.bitrate

\* Array.prototype.sort with that compare function, as a stable sort.
RECURSIVE sort(_, _)
sort(type, streams) ==
    IF streams = <<>> THEN <<>>
    ELSE LET first == Head(streams)
             rest == sort(type, Tail(streams))
             k == Cardinality({i \in 1..Len(rest) : compare(type, rest[i], first) < 0})
         IN  SubSeq(rest, 1, k) \o <<first>> \o SubSeq(rest, k + 1, Len(rest))

\* selectBestVideoStream(formats) under the configuration cfg: <<>> for null.
selectBestVideoStream(formats, cfg) ==
    LET preferredQuality == cfg.preferredVideoQuality
        h == IF preferredQuality = "auto" \/ parseInt(preferredQuality) = NaN
             THEN DefaultHeight
             ELSE parseInt(preferredQuality)
        Kept(f) == /\ f.mimeType.type = "video"
                   /\ f.url # ""
                   /\ f.mimeType.codec \notin cfg.disabled
                   /\ ~(cfg.disable60fps /\ f.fps > 30)
        videoStreams == sort("video", SelectSeq(decryptedFormats(formats), Kept))
        fits == {i \in 1..Len(videoStreams) : videoStreams[i].height <= h}
    IN  IF videoStreams = <<>> THEN <<>>
        ELSE IF fits # {} THEN <<videoStreams[CHOOSE i \in fits : \A j \in fits : i <= j]>>
        ELSE <<videoStreams[1]>>

selectHighestBitrate(formats) ==
    LET Kept(f) == f.mimeType.type = "audio" /\ f.url # ""
        audioStreams == sort("audio", SelectSeq(decryptedFormats(formats), Kept))
    IN  IF audioStreams = <<>> THEN <<>> ELSE <<audioStreams[1]>>

\* selectBestAudioStream(formats): <<>> for null.
selectBestAudioStream(formats) ==
    LET Kept(f) == f.mimeType.type = "audio" /\ f.url # ""
        audioStreams == sort("audio", SelectSeq(decryptedFormats(formats), Kept))
        opus == {i \in 1..Len(audioStreams) : audioStreams[i].mimeType.codec = "opus"}
    IN  IF audioStreams = <<>> THEN <<>>
        ELSE IF opus # {} THEN <<audioStreams[CHOOSE i \in opus : \A j \in opus : i <= j]>>
        ELSE <<audioStreams[1]>>

(***************************************************************************)
(* HybridPlayer.                                                           *)
(***************************************************************************)
VideoIds == {"abc123", "xyz789"}

\* What window.__avplayStreamData may hold: whether it has adaptiveFormats and a
\* serverAbrStreamingUrl, and whether the selectors find a video and an audio
\* stream among the formats.
StreamShapes ==
    {sd \in [adaptiveFormats : BOOLEAN, server : BOOLEAN, video : BOOLEAN, audio : BOOLEAN] :
        /\ ~sd.adaptiveFormats => (~sd.server /\ ~sd.video /\ ~sd.audio)
        /\ sd.server => (sd.video <=> sd.audio)}

\* The metadata with which startAVPlayWithData reaches an open() call.
Playable == {sd \in StreamShapes : sd.video /\ sd.audio}

Locations ==
    {[watch |-> FALSE, vid |-> "null"]} \cup [watch : {TRUE}, vid : VideoIds \cup {"null"}]

restoreHTML5(h) ==
    [h EXCEPT !.muted = FALSE, !.opacity = "", !.bgVideo = "", !.bgPlayer = "",
              !.bgApi = ""]

stopAVPlayCloseFirst(fx, ok1, ok2) == IF isAVPlayActive THEN stop(close(fx, ok2), ok1) ELSE fx

\* stopAVPlay(): what it does to the binding, and to the orchestrator and the page.
stopAVPlay(fx, ok1, ok2) == IF isAVPlayActive THEN close(stop(fx, ok1), ok2) ELSE fx

StopAVPlay ==
    /\ isAVPlayActive' = FALSE
    /\ liveSync' = IF isAVPlayActive THEN liveSync \ {syncInterval} ELSE liveSync
    /\ host' = IF isAVPlayActive THEN restoreHTML5(host) ELSE host
    /\ subtleSync' = IF isAVPlayActive /\ subtleSync.exists
                     THEN start([subtleSync EXCEPT !.enabled = cpuStress], now)
                     ELSE subtleSync
    /\ UNCHANGED <<syncInterval, now, cpuStress, trial>>

Data == CHOOSE sd \in streamData : TRUE

\* Open() calls that a running start sequence will still make.
Promised == Cardinality({i \in Ids : op[i].caller = "first" /\ op[i].stage \in {"waitInj", "prepare"}})

\* createDashManifest(video, audio), by whether each stream is there: null, or
\* the locator of a blob that holds the manifest.
createDashManifest(video, audio) == IF ~video \/ ~audio THEN "null" ELSE "blob"

\* The open() calls a start sequence makes on the server-locator path and on
\* the synthesized-manifest path, and whether the behaviour has that many left.
Need(sd) == IF sd.server THEN 1 ELSE 2

Room(sd) == nOpens + Promised + Need(sd) <= MaxOpens

StartSelectingFirst(k, sd, m, t, f, okc) ==
    IF sd.adaptiveFormats /\ sd.video /\ sd.audio /\ sd.server
    THEN /\ Room(sd)
         /\ host' = [host EXCEPT !.muted = TRUE, !.opacity = "0"]
         /\ OpenCall("startAVPlayWithData", Fx0, "server", k, m, t, f, okc)
    ELSE IF sd.adaptiveFormats /\ sd.video /\ sd.audio
    THEN /\ Room(sd)
         /\ host' = [host EXCEPT !.muted = TRUE, !.opacity = "0", !.visibility = "hidden",
                                 !.bgVideo = "transparent", !.bgPlayer = "transparent",
                                 !.bgApi = "transparent"]
         /\ OpenCall("startAVPlayWithData", Fx0, "first", k, m, t, f, okc)
    ELSE /\ Quiet("startAborted", k)
         /\ micro' = m
         /\ timers' = t
         /\ UNCHANGED <<host, isSupported, listener, openVars>>

\* startAVPlayWithData(streamData), to its first await, in the start attempt of
\* identity change k.  m, t: micro and timers as the caller leaves them.
StartAVPlayWithData(k, sd, m, t, f, okc) ==
    IF sd.adaptiveFormats /\ sd.server
    THEN /\ Room(sd)
         /\ host' = [host EXCEPT !.muted = TRUE, !.opacity = "0"]
         /\ OpenCall("startAVPlayWithData", Fx0, "server", k, m, t, f, okc)
    ELSE IF sd.adaptiveFormats /\ sd.video /\ sd.audio
            /\ createDashManifest(sd.video, sd.audio) # "null"
    THEN /\ Room(sd)
         /\ host' = [host EXCEPT !.muted = TRUE, !.opacity = "0", !.visibility = "hidden",
                                 !.bgVideo = "transparent", !.bgPlayer = "transparent",
                                 !.bgApi = "transparent"]
         /\ OpenCall("startAVPlayWithData", Fx0, "first", k, m, t, f, okc)
    ELSE /\ Quiet("startAborted", k)
         /\ micro' = m
         /\ timers' = t
         /\ UNCHANGED <<host, isSupported, listener, openVars>>

\* hybridPlayer.init(): this.avplay.init(), and the interval that waits for the
\* player elements.
HybridInit ==
    /\ micro = <<>>
    /\ life = "load"
    /\ life' = "init"
    /\ init
    /\ Quiet("init", 0)
    /\ UNCHANGED <<parentApi, revision, listener, nOpens, isAVPlayActive, host, enabled,
                   streamData, currentVideoId, nNav, syncInterval, liveSync, syncVars>>

handleNavigationAnyIdentity(loc, ok1, ok2) ==
    IF ~loc.watch
    THEN /\ StopAVPlay
         /\ Commit("handleNavigation", 0, stopAVPlay(Fx0, ok1, ok2))
         /\ op' = NoteClose(op, stopAVPlay(Fx0, ok1, ok2))
         /\ UNCHANGED <<currentVideoId, nNav, timers>>
    ELSE IF loc.vid # "null"
    THEN /\ nNav < MaxNav
         /\ nNav' = nNav + 1
         /\ currentVideoId' = loc.vid
         /\ StopAVPlay
         /\ Commit("handleNavigation", nNav + 1, stopAVPlay(Fx0, ok1, ok2))
         /\ op' = NoteClose(op, stopAVPlay(Fx0, ok1, ok2))
         /\ timers' = Append(timers, Timer("settle", nNav + 1, SettleDelay))
    ELSE /\ Quiet("handleNavigation", 0)
         /\ UNCHANGED <<currentVideoId, nNav, timers, op, isAVPlayActive, host,
                        syncInterval, liveSync, syncVars>>

\* handleNavigation() at location loc.
handleNavigation(loc, ok1, ok2) ==
    IF ~loc.watch
    THEN /\ StopAVPlay
         /\ Commit("handleNavigation", 0, stopAVPlay(Fx0, ok1, ok2))
         /\ op' = NoteClose(op, stopAVPlay(Fx0, ok1, ok2))
         /\ UNCHANGED <<currentVideoId, nNav, timers>>
    ELSE IF loc.vid # "null" /\ loc.vid # currentVideoId
    THEN /\ nNav < MaxNav
         /\ nNav' = nNav + 1
         /\ currentVideoId' = loc.vid
         /\ StopAVPlay
         /\ Commit("handleNavigation", nNav + 1, stopAVPlay(Fx0, ok1, ok2))
         /\ op' = NoteClose(op, stopAVPlay(Fx0, ok1, ok2))
         /\ timers' = Append(timers, Timer("settle", nNav + 1, SettleDelay))
    ELSE /\ Quiet("handleNavigation", 0)
         /\ UNCHANGED <<currentVideoId, nNav, timers, op, isAVPlayActive, host,
                        syncInterval, liveSync, syncVars>>

\* The interval of init() finds the player elements while the page is at loc:
\* attachListeners(), and handleNavigation() when loc is a watch page.
PlayerFound(loc, ok1, ok2) ==
    /\ micro = <<>>
    /\ life = "init"
    /\ life' = "attached"
    /\ IF loc.watch
       THEN handleNavigation(loc, ok1, ok2)
       ELSE /\ Quiet("other", 0)
            /\ UNCHANGED <<currentVideoId, nNav, timers, op, isAVPlayActive, host,
                           syncInterval, liveSync, syncVars>>
    /\ UNCHANGED <<isSupported, injectionPromise, injVars, webapis, parentApi, scriptTag,
                   revision, listener, nOpens, micro, histVars, enabled, streamData>>

\* The page goes to loc; yt-navigate-finish or hashchange runs handleNavigation().
\* Before attachListeners() nothing listens.
Navigate(loc, ok1, ok2) ==
    /\ micro = <<>>
    /\ life = "attached"
    /\ handleNavigation(loc, ok1, ok2)
    /\ UNCHANGED <<isSupported, injectionPromise, injVars, webapis, parentApi, scriptTag,
                   revision, listener, nOpens, micro, histVars, enabled, streamData, life>>

\* Where the page can be when no navigation event is being handled: off the
\* watch pages, or on the watch page that the last event was handled for.
Here == {loc \in Locations : ~loc.watch \/ loc.vid \in {"null", currentVideoId}}

\* The settings write enableAVPlay = v; once attachListeners() has run the
\* configChange event runs handleConfigChange() with the page at loc.
ConfigChange(v, loc, ok1, ok2) ==
    /\ micro = <<>>
    /\ v # enabled
    /\ enabled' = v
    /\ IF life # "attached"
       THEN /\ Quiet("other", 0)
            /\ UNCHANGED <<currentVideoId, nNav, timers, op, isAVPlayActive, host,
                           syncInterval, liveSync, syncVars>>
       ELSE IF v
       THEN IF loc.watch
            THEN handleNavigation(loc, ok1, ok2)
            ELSE /\ Quiet("handleConfigChange", 0)
                 /\ UNCHANGED <<currentVideoId, nNav, timers, op, isAVPlayActive, host,
                                syncInterval, liveSync, syncVars>>
       ELSE /\ StopAVPlay
            /\ Commit("handleConfigChange", 0, stopAVPlay(Fx0, ok1, ok2))
            /\ op' = NoteClose(op, stopAVPlay(Fx0, ok1, ok2))
            /\ UNCHANGED <<currentVideoId, nNav, timers>>
    /\ UNCHANGED <<isSupported, injectionPromise, injVars, webapis, parentApi, scriptTag,
                   revision, listener, nOpens, micro, histVars, streamData, life>>

\* The stream metadata provider fills window.__avplayStreamData.
StreamDataArrives(sd) ==
    /\ micro = <<>>
    /\ streamData = {}
    /\ streamData' = {sd}
    /\ Quiet("other", 0)
    /\ UNCHANGED <<isSupported, injectionPromise, injVars, webapis, parentApi, scriptTag,
                   revision, listener, openVars, loopVars, histVars, isAVPlayActive, host,
                   enabled, life, currentVideoId, nNav, syncInterval, liveSync, syncVars>>

\* The page replaces window.__avplayStreamData, as it does for the next video.
StreamDataChanges(sd) ==
    /\ micro = <<>>
    /\ streamData # {}
    /\ streamData # {sd}
    /\ streamData' = {sd}
    /\ Quiet("other", 0)
    /\ UNCHANGED <<isSupported, injectionPromise, injVars, webapis, parentApi, scriptTag,
                   revision, listener, openVars, loopVars, histVars, isAVPlayActive, host,
                   enabled, life, currentVideoId, nNav, syncInterval, liveSync, syncVars>>

AttemptStartIgnoringFlag(k, f, okc) ==
    /\ micro = <<>>
    /\ Due("settle", k)
    /\ IF streamData = {}
       THEN /\ Quiet("attemptStartAVPlay", k)
            /\ timers' = Append(Without(timers, "settle", k), Timer("poll", k, PollInterval))
            /\ UNCHANGED <<host, isSupported, listener, openVars, micro>>
       ELSE StartAVPlayWithData(k, Data, micro,
                            Without(timers, "settle", k), f, okc)
    /\ UNCHANGED <<injectionPromise, injVars, webapis, parentApi, scriptTag, revision,
                   histVars, isAVPlayActive, enabled, streamData, life,
                   currentVideoId, nNav, syncInterval, liveSync, syncVars>>

\* attemptStartAVPlay(), run by the settle timer of identity change k.
AttemptStartAVPlay(k, f, okc) ==
    /\ micro = <<>>
    /\ Due("settle", k)
    /\ IF ~enabled
       THEN /\ Quiet("attemptStartAVPlay", k)
            /\ timers' = Without(timers, "settle", k)
            /\ UNCHANGED <<host, isSupported, listener, openVars, micro>>
       ELSE IF streamData = {}
       THEN /\ Quiet("attemptStartAVPlay", k)
            /\ timers' = Append(Without(timers, "settle", k), Timer("poll", k, PollInterval))
            /\ UNCHANGED <<host, isSupported, listener, openVars, micro>>
       ELSE StartAVPlayWithData(k, Data, micro,
                            Without(timers, "settle", k), f, okc)
    /\ UNCHANGED <<injectionPromise, injVars, webapis, parentApi, scriptTag, revision,
                   histVars, isAVPlayActive, enabled, streamData, life,
                   currentVideoId, nNav, syncInterval, liveSync, syncVars>>

PollAttempts(k) ==
    timers[CHOOSE j \in 1..Len(timers) : timers[j].kind = "poll" /\ timers[j].id = k].n

PollTickNoLimit(k, f, okc) ==
    /\ micro = <<>>
    /\ Due("poll", k)
    /\ LET rest == Without(timers, "poll", k)
       IN  IF streamData # {}
           THEN StartAVPlayWithData(k, Data, micro, rest, f, okc)
           ELSE /\ Quiet("pollTick", k)
                /\ timers' = Append(rest, Timer("poll", k, PollInterval))
                /\ UNCHANGED <<host, isSupported, listener, openVars, micro>>
    /\ UNCHANGED <<injectionPromise, injVars, webapis, parentApi, scriptTag, revision,
                   histVars, isAVPlayActive, enabled, streamData, life,
                   currentVideoId, nNav, syncInterval, liveSync, syncVars>>

\* A tick of the poll interval of attemptStartAVPlay().
PollTick(k, f, okc) ==
    /\ micro = <<>>
    /\ Due("poll", k)
    /\ LET attempts == PollAttempts(k) + 1
           rest == Without(timers, "poll", k)
       IN  IF streamData # {}
           THEN StartAVPlayWithData(k, Data, micro, rest, f, okc)
           ELSE /\ Quiet("pollTick", k)
                /\ timers' = IF attempts > PollLimit
                             THEN rest
                             ELSE Append(rest, [Timer("poll", k, PollInterval) EXCEPT !.n = attempts])
                /\ UNCHANGED <<host, isSupported, listener, openVars, micro>>
    /\ UNCHANGED <<injectionPromise, injVars, webapis, parentApi, scriptTag, revision,
                   histVars, isAVPlayActive, enabled, streamData, life,
                   currentVideoId, nNav, syncInterval, liveSync, syncVars>>

Caught(fx) == [fx EXCEPT !.esc = FALSE]

ActivateWithoutHostPlay(i, fx) ==
    /\ Commit("startDone", i, fx)
    /\ isAVPlayActive' = TRUE
    /\ syncInterval' = i
    /\ liveSync' = liveSync \cup {i}
    /\ UNCHANGED host
    /\ subtleSync' = IF subtleSync.exists
                     THEN [stopSync(subtleSync) EXCEPT !.enabled = FALSE]
                     ELSE subtleSync
    /\ UNCHANGED <<now, cpuStress, trial>>

\* The end of startAVPlayWithData() when nothing threw: the native player is
\* active, the host element is told to play and the sync loop of open() i starts.
Activate(i, fx) ==
    /\ Commit("startDone", i, fx)
    /\ isAVPlayActive' = TRUE
    /\ syncInterval' = i
    /\ liveSync' = liveSync \cup {i}
    /\ host' = [host EXCEPT !.played = TRUE]
    /\ subtleSync' = IF subtleSync.exists
                     THEN [stopSync(subtleSync) EXCEPT !.enabled = FALSE]
                     ELSE subtleSync
    /\ UNCHANGED <<now, cpuStress, trial>>

\* startAVPlayWithData() after an await of this.avplay.open(): the head of the
\* microtask queue is the continuation of the caller of open() i.
RunSettled(ok, f, okc, seek, oks) ==
    /\ micro # <<>>
    /\ Head(micro)[1] = "settled"
    /\ LET i == Head(micro)[2]
           done == op[i].stage = "fulfilled"
           played == play(Fx0, ok)
       IN  CASE op[i].caller = "server" ->
                 /\ Commit("startDone", i, IF done THEN Caught(played) ELSE Fx0)
                 /\ micro' = Tail(micro)
                 /\ UNCHANGED <<isSupported, listener, openVars, timers, isAVPlayActive,
                                host, syncInterval, liveSync, syncVars>>
             [] op[i].caller = "first" ->
                 /\ OpenCall("startSecond", IF done THEN Caught(played) ELSE Fx0, "second",
                             op[i].nav, Tail(micro), timers, f, okc)
                 /\ UNCHANGED <<isAVPlayActive, host, syncInterval, liveSync, syncVars>>
             [] OTHER ->
                 /\ micro' = Tail(micro)
                 /\ UNCHANGED <<isSupported, listener, openVars, timers>>
                 /\ IF ~done
                    THEN /\ Quiet("startDone", i)
                         /\ host' = restoreHTML5(host)
                         /\ UNCHANGED <<isAVPlayActive, syncInterval, liveSync, syncVars>>
                    ELSE IF played.esc
                    THEN /\ Commit("startDone", i, Caught(played))
                         /\ host' = restoreHTML5(host)
                         /\ UNCHANGED <<isAVPlayActive, syncInterval, liveSync, syncVars>>
                    ELSE IF seek /\ ~oks
                    THEN /\ Commit("startDone", i, Caught(seekTo(played, FALSE)))
                         /\ isAVPlayActive' = TRUE
                         /\ host' = restoreHTML5(host)
                         /\ UNCHANGED <<syncInterval, liveSync, syncVars>>
                    ELSE Activate(i, IF seek THEN seekTo(played, TRUE) ELSE played)
    /\ UNCHANGED <<injectionPromise, injVars, webapis, parentApi, scriptTag, revision,
                   histVars, enabled, streamData, life, currentVideoId, nNav>>

HandleStateChangeUnguarded(code, ok1, ok2) ==
    /\ micro = <<>>
    /\ life = "attached"
    /\ LET fx == CASE code = 1 -> play(Fx0, ok1)
                   [] code = 2 -> pause(Fx0, ok1)
                   [] code = 0 -> stopAVPlay(Fx0, ok1, ok2)
                   [] OTHER -> Fx0
       IN  /\ IF code \in 0..2
              THEN Commit("handleStateChange", code, fx)
              ELSE Quiet("other", 0)
           /\ op' = NoteClose(op, fx)
    /\ IF isAVPlayActive /\ code = 0
       THEN StopAVPlay
       ELSE UNCHANGED <<isAVPlayActive, host, syncInterval, liveSync, syncVars>>
    /\ UNCHANGED <<isSupported, injectionPromise, injVars, webapis, parentApi, scriptTag,
                   revision, listener, nOpens, loopVars, histVars, enabled, streamData,
                   life, currentVideoId, nNav>>

\* handleStateChange(event): 1 playing, 2 paused, 0 ended, 3 buffering.
HandleStateChange(code, ok1, ok2) ==
    /\ micro = <<>>
    /\ life = "attached"
    /\ LET fx == CASE ~isAVPlayActive -> Fx0
                   [] code = 1 -> play(Fx0, ok1)
                   [] code = 2 -> pause(Fx0, ok1)
                   [] code = 0 -> stopAVPlay(Fx0, ok1, ok2)
                   [] OTHER -> Fx0
       IN  /\ IF isAVPlayActive /\ code \in 0..2
              THEN Commit("handleStateChange", code, fx)
              ELSE Quiet("other", 0)
           /\ op' = NoteClose(op, fx)
    /\ IF isAVPlayActive /\ code = 0
       THEN StopAVPlay
       ELSE UNCHANGED <<isAVPlayActive, host, syncInterval, liveSync, syncVars>>
    /\ UNCHANGED <<isSupported, injectionPromise, injVars, webapis, parentApi, scriptTag,
                   revision, listener, nOpens, loopVars, histVars, enabled, streamData,
                   life, currentVideoId, nNav>>

\* A tick of a sync interval; jump: the host element's time moved by more than
\* SYNC_THRESHOLD since the last tick, outside the cooldown.
SyncTick(k, jump, ok) ==
    /\ micro = <<>>
    /\ k \in liveSync
    /\ IF isAVPlayActive /\ jump
       THEN Commit("syncTick", k, seekTo(Fx0, ok))
       ELSE Quiet("other", 0)
    /\ UNCHANGED <<isSupported, injectionPromise, injVars, webapis, parentApi, scriptTag,
                   revision, listener, openVars, loopVars, histVars, orchVars>>

(***************************************************************************)
(* The specifications.                                                     *)
(***************************************************************************)
\* No function is being tried.
NoTrial == [fn |-> "none"]

HostOriginal ==
    [muted |-> FALSE, opacity |-> "", visibility |-> "", bgVideo |-> "",
     bgPlayer |-> "", bgApi |-> "",
     played |-> FALSE]    \* the start sequence has called videoElement.play()

Load ==
    /\ state = "NONE"
    /\ isSupported = FALSE
    /\ injectionPromise = "null"
    /\ injPhase = "none"
    /\ attempt = 0
    /\ webapis \in BOOLEAN
    /\ parentApi \in BOOLEAN
    /\ parentApi => (revision = "multi" /\ ~webapis)
    /\ scriptTag \in BOOLEAN
    /\ sess = 0
    /\ listener = 0
    /\ nOpens = 0
    /\ op = [i \in Ids |-> NoOpen]
    /\ micro = <<>>
    /\ timers = <<>>
    /\ lastOp = [op |-> "new", id |-> 0]
    /\ pre = "NONE"
    /\ calls = <<>>
    /\ trail = <<>>
    /\ nativeThrew = FALSE
    /\ escaped = FALSE
    /\ nInj = 0
    /\ signalled = {}
    /\ injValues = {}
    /\ isAVPlayActive = FALSE
    /\ host = HostOriginal
    /\ streamData = {}
    /\ life = "load"
    /\ currentVideoId = "null"
    /\ nNav = 0
    /\ syncInterval = 0
    /\ liveSync = {}
    /\ subtleSync = SyncNew
    /\ now = 0
    /\ cpuStress = TRUE

\* What the platform, the page and the event loop do.
Platform ==
    \/ ActivationTimer
    \/ \E d \in BOOLEAN : ScriptLoad(d)
    \/ ScriptError
    \/ ApiAppears
    \/ \E i \in Ids : InjTimeout(i)
    \/ \E i \in Ids : PrepareSuccess(i)
    \/ \E i \in Ids : PrepareError(i)
    \/ \E i \in Ids : PrepareTimeout(i)
    \/ ListenerError
    \/ \E ok \in BOOLEAN : StreamCompleted(ok)
    \/ \E f \in FailPoints, okc \in BOOLEAN : RunAfterInj(f, okc)
    \/ RunPrepSettled

\* The binding of avplayController.js under a client that calls its methods in
\* any order.
Init == revision = "single" /\ enabled = TRUE /\ Load /\ trial = NoTrial

Client ==
    \/ ClientInit
    \/ ClientInject
    \/ \E f \in FailPoints, okc \in BOOLEAN : Open(f, okc)
    \/ \E ok \in BOOLEAN : Play(ok)
    \/ \E ok \in BOOLEAN : Pause(ok)
    \/ \E ok \in BOOLEAN : Stop(ok)
    \/ \E ok \in BOOLEAN : Close(ok)
    \/ \E ok \in BOOLEAN : SeekTo(ok)
    \/ \E ok \in BOOLEAN : SetDisplayRect(ok)

Next == Client \/ Platform

Spec == Init /\ [][Next]_vars

\* Capability injection in both revisions, under a client that discovers the
\* capability and opens and closes the player.
InitInj == revision \in {"single", "multi"} /\ enabled = TRUE /\ Load /\ trial = NoTrial

NextInj ==
    \/ ClientInit
    \/ ClientInject
    \/ \E f \in FailPoints, okc \in BOOLEAN : Open(f, okc)
    \/ \E ok \in BOOLEAN : Close(ok)
    \/ Platform

InjSpec == InitInj /\ [][NextInj]_vars

\* The event loop runs the microtasks that are queued and the timers that are
\* due.  Nothing is asked of the script element or of the native layer.
EventLoop ==
    /\ WF_vars(ActivationTimer)
    /\ \A i \in Ids : WF_vars(InjTimeout(i))
    /\ \A i \in Ids : WF_vars(PrepareTimeout(i))
    /\ WF_vars(\E f \in FailPoints, okc \in BOOLEAN : RunAfterInj(f, okc))
    /\ WF_vars(RunPrepSettled)

\* The client of InjSpec on avplayController.js, under that event loop.
FairSpec == Init /\ [][NextInj]_vars /\ EventLoop

\* Whether a native call returns (TRUE) or throws, where the handler makes one,
\* and where an open() fails, where the handler calls open().
Outcomes(made) == IF made THEN BOOLEAN ELSE {TRUE}

Faults(made) == IF made THEN FailPoints ELSE {"none"}

Choices(asked) == IF asked THEN BOOLEAN ELSE {FALSE}

Starts ==
    /\ enabled
    /\ streamData # {}
    /\ Data.adaptiveFormats
    /\ Data.server \/ (Data.video /\ Data.audio)

HeadIs(c) == micro # <<>> /\ Head(micro)[1] = "settled" /\ op[Head(micro)[2]].caller = c

\* The orchestrator driving the binding of avplayController.js on a page that
\* loads without webapis.avplay.
InitOrch == revision = "single" /\ enabled \in BOOLEAN /\ Load /\ ~webapis /\ trial = NoTrial

NextOrch ==
    \/ HybridInit
    \/ \E loc \in Locations : PlayerFound(loc, TRUE, TRUE)
    \/ \E loc \in Locations, ok1 \in Outcomes(isAVPlayActive), ok2 \in Outcomes(isAVPlayActive) :
          Navigate(loc, ok1, ok2)
    \/ \E sd \in Playable : StreamDataArrives(sd)
    \/ \E k \in 1..MaxNav, f \in Faults(Starts), okc \in Outcomes(Starts /\ state # "NONE") :
          AttemptStartAVPlay(k, f, okc)
    \/ \E k \in 1..MaxNav, f \in Faults(Starts), okc \in Outcomes(Starts /\ state # "NONE") :
          PollTick(k, f, okc)
    \/ \E ok \in BOOLEAN, f \in Faults(HeadIs("first")), okc \in Outcomes(HeadIs("first")) :
          \E seek \in Choices(HeadIs("second")) : \E oks \in Outcomes(seek) :
              RunSettled(ok, f, okc, seek, oks)
    \/ Platform

OrchSpec == InitOrch /\ [][NextOrch]_vars

\* The orchestrator on a device whose page loads with webapis.avplay: no
\* injection is ever started.
Loaded == revision = "single" /\ enabled = TRUE /\ Load /\ webapis /\ ~scriptTag

InitPlay == Loaded /\ trial = NoTrial

NextPlay ==
    \/ HybridInit
    \/ \E loc \in Locations : PlayerFound(loc, TRUE, TRUE)
    \/ \E loc \in Locations, ok1 \in Outcomes(isAVPlayActive), ok2 \in Outcomes(isAVPlayActive) :
          Navigate(loc, ok1, ok2)
    \/ \E sd \in StreamShapes : StreamDataArrives(sd)
    \/ \E k \in 1..MaxNav, f \in Faults(Starts), okc \in Outcomes(Starts /\ state # "NONE") :
          AttemptStartAVPlay(k, f, okc)
    \/ \E k \in 1..MaxNav, f \in Faults(Starts), okc \in Outcomes(Starts /\ state # "NONE") :
          PollTick(k, f, okc)
    \/ \E ok \in BOOLEAN, f \in Faults(HeadIs("first")), okc \in Outcomes(HeadIs("first")) :
          \E seek \in Choices(HeadIs("second")) : \E oks \in Outcomes(seek) :
              RunSettled(ok, f, okc, seek, oks)
    \/ \E code \in 0..3, ok1 \in Outcomes(isAVPlayActive) :
          \E ok2 \in Outcomes(isAVPlayActive /\ code = 0) : HandleStateChange(code, ok1, ok2)
    \/ \E k \in Ids, jump \in BOOLEAN : \E ok \in Outcomes(jump) : SyncTick(k, jump, ok)
    \/ \E v \in BOOLEAN, loc \in Here, ok1 \in Outcomes(isAVPlayActive), ok2 \in Outcomes(isAVPlayActive) :
          ConfigChange(v, loc, ok1, ok2)
    \/ \E i \in Ids : PrepareSuccess(i)
    \/ \E i \in Ids : PrepareError(i)
    \/ \E i \in Ids : PrepareTimeout(i)
    \/ ListenerError
    \/ \E ok \in BOOLEAN : StreamCompleted(ok)
    \/ RunPrepSettled

PlaySpec == InitPlay /\ [][NextPlay]_vars

\* Navigation, the start attempts and their open() calls, under an event loop
\* that runs the poll ticks that are due and the continuations that are queued.
NextPoll ==
    \/ HybridInit
    \/ \E loc \in Locations : PlayerFound(loc, TRUE, TRUE)
    \/ \E loc \in Locations, ok1 \in Outcomes(isAVPlayActive), ok2 \in Outcomes(isAVPlayActive) :
          Navigate(loc, ok1, ok2)
    \/ \E sd \in StreamShapes : StreamDataArrives(sd)
    \/ \E k \in 1..MaxNav, f \in Faults(Starts), okc \in Outcomes(Starts /\ state # "NONE") :
          AttemptStartAVPlay(k, f, okc)
    \/ \E k \in 1..MaxNav, f \in Faults(Starts), okc \in Outcomes(Starts /\ state # "NONE") :
          PollTick(k, f, okc)
    \/ \E ok \in BOOLEAN, f \in Faults(HeadIs("first")), okc \in Outcomes(HeadIs("first")) :
          \E seek \in Choices(HeadIs("second")) : \E oks \in Outcomes(seek) :
              RunSettled(ok, f, okc, seek, oks)
    \/ \E i \in Ids : PrepareSuccess(i)
    \/ \E i \in Ids : PrepareError(i)
    \/ \E i \in Ids : PrepareTimeout(i)
    \/ RunPrepSettled

\* A step that applies a function of the modules to what the trial holds.
Try(fn, out) ==
    /\ trial.fn = fn
    /\ ~trial.done
    /\ trial' = [trial EXCEPT !.done = TRUE, !.out = out]
    /\ UNCHANGED <<bindVars, injVars, envVars, openVars, loopVars, stepVars, histVars,
                   isAVPlayActive, host, enabled, streamData, life, currentVideoId, nNav,
                   syncInterval, liveSync, subtleSync, now, cpuStress>>

\* The drift computation of _tick on a tick that has passed the cooldowns.
Rates == {15, 20}

Elapsed == {200, 1000, 2000}

Positions == {10200, 11000, 12500}

DriftCases ==
    [rate10 : Rates, baseline : {10000}, elapsed : Elapsed, actual : Positions,
     avc : BOOLEAN, stress : BOOLEAN]

InitDrift ==
    /\ Loaded
    /\ \E p \in DriftCases : trial = [fn |-> "tick", in |-> p, done |-> FALSE, out |-> "none"]

CorrectDrift == Try("tick", correction(trial.in))

DriftSpec == InitDrift /\ [][CorrectDrift]_vars

\* The selectors on the adaptiveFormats of a metadata record.  A descriptor
\* has a url, or a signatureCipher that gives one, or neither.
Sources == {[url |-> "direct", cipher |-> ""], [url |-> "", cipher |-> "valid"],
            [url |-> "", cipher |-> ""]}

Descriptor(type, codec, height, fps, bitrate, src) ==
    [mimeType |-> [type |-> type, codec |-> codec], height |-> height, fps |-> fps,
     bitrate |-> bitrate, url |-> src.url, cipher |-> src.cipher]

VideoDescriptors ==
    {Descriptor("video", c, h, f, 0, src) :
        c \in {"vp9", "avc"}, h \in {480, 720, 1440}, f \in {30, 60}, src \in Sources}

AudioDescriptors ==
    {Descriptor("audio", c, 0, 0, b, src) :
        c \in {"opus", "mp4a"}, b \in {64, 128, 256}, src \in Sources}

Arrays(descriptors) == UNION {[1..n -> descriptors] : n \in 0..MaxFormats}

Configs ==
    {cfg \in [preferredVideoQuality : {"auto", "720"}, disabled : {{}, {"avc"}},
              disable60fps : BOOLEAN] : cfg.disabled = {} \/ ~cfg.disable60fps}

InitSelect ==
    /\ Loaded
    /\ \/ \E formats \in Arrays(VideoDescriptors \cup {Descriptor("audio", "opus", 0, 0, 128, [url |-> "direct", cipher |-> ""])}) :
            \E cfg \in Configs :
              trial = [fn |-> "selectBestVideoStream", in |-> [formats |-> formats, cfg |-> cfg],
                       done |-> FALSE, out |-> "none"]
       \/ \E formats \in Arrays(AudioDescriptors \cup {Descriptor("video", "vp9", 720, 30, 0, [url |-> "direct", cipher |-> ""])}) :
              trial = [fn |-> "selectBestAudioStream", in |-> [formats |-> formats],
                       done |-> FALSE, out |-> "none"]

\* What a selector returns, and the adaptiveFormats of the record after it.
SelectVideo ==
    Try("selectBestVideoStream",
        [pick |-> selectBestVideoStream(trial.in.formats, trial.in.cfg),
         formats |-> decryptedFormats(trial.in.formats)])

SelectAudio ==
    Try("selectBestAudioStream",
        [pick |-> selectBestAudioStream(trial.in.formats),
         formats |-> decryptedFormats(trial.in.formats)])

SelectSpec == InitSelect /\ [][SelectVideo \/ SelectAudio]_vars

\* The manifest phase of startAVPlayWithData, attempt after attempt on one page:
\* what the selectors found for each attempt is given, and the page keeps the
\* blob locators that URL.createObjectURL has handed out and that nothing has
\* revoked.
Selections == [video : BOOLEAN, audio : BOOLEAN]

InitManifest ==
    /\ Loaded
    /\ \E n \in 1..MaxAttempts : \E best \in [1..n -> Selections] :
          trial = [fn |-> "createDashManifest", in |-> best, done |-> FALSE,
                   attempts |-> 0, manifestUrl |-> "none", valid |-> {}]

\* const manifestUrl = createDashManifest(bestVideo, bestAudio) of the next
\* attempt: a new blob locator unless it returns null.  No locator is revoked.
ManifestPhase ==
    /\ trial.fn = "createDashManifest"
    /\ ~trial.done
    /\ LET n == trial.attempts + 1
           made == createDashManifest(trial.in[n].video, trial.in[n].audio)
       IN  trial' = [trial EXCEPT !.attempts = n,
                                  !.done = (n = Len(trial.in)),
                                  !.manifestUrl = IF made = "null" THEN "null" ELSE <<made, n>>,
                                  !.valid = IF made = "null" THEN @ ELSE @ \cup {<<made, n>>}]
    /\ UNCHANGED <<bindVars, injVars, envVars, openVars, loopVars, stepVars, histVars,
                   isAVPlayActive, host, enabled, streamData, life, currentVideoId, nNav,
                   syncInterval, liveSync, subtleSync, now, cpuStress>>

ManifestSpec == InitManifest /\ [][ManifestPhase]_vars

\* One timeout of _schedule on an attached corrector whose baseline is one
\* second old, and one event of the element followed by a timeout.
Tracking ==
    [videoEl : {TRUE}, enabled : BOOLEAN, lastAdjustmentTime : {0},
     lastBaselineTime : {0}, lastBaselineCurrentTime : {10000},
     consecutiveHighDrifts : {0}, consecutiveForceSyncs : {0, MaxForceSyncs}]

Elements ==
    [paused : BOOLEAN, ended : BOOLEAN, rate10 : {10, 12, 20},
     currentTime : {8000, 10200, 11300, 11600, 11800, 11900, 12000, 12200, 12400},
     drop : Drops, avc : BOOLEAN]

TickTimes == {4000, 6000, 9000}

InitTick ==
    /\ Loaded
    /\ \E s \in Tracking, el \in Elements, t \in TickTimes :
          trial = [fn |-> "tick",
                   in |-> [s |-> [s EXCEPT !.lastBaselineTime = t - 1000], el |-> el, t |-> t],
                   done |-> FALSE, out |-> "none"]

RunTimeout == Try("tick", timeoutAt(trial.in.s, trial.in.el, trial.in.t))

TickSpec == InitTick /\ [][RunTimeout]_vars

\* An event of the element the corrector is attached to, then the first tick
\* that passes the cooldown.  The baseline before the event is stale: it was
\* taken at position 10 s, at time 0 or 5 s.  At the event, 9 s, the element
\* is at 20 s or 60 s and plays at 2.0; the tick comes wait ms later, with the
\* element behind the rate by lag ms.
EventNames == {"ratechange", "seeked", "play"}

Waits == {400, 1000}

Lags == {0, 100, 200, 700}

EventCases ==
    [s : [videoEl : {TRUE}, enabled : {TRUE}, lastAdjustmentTime : {0},
          lastBaselineTime : {0, 5000}, lastBaselineCurrentTime : {10000},
          consecutiveHighDrifts : {0}, consecutiveForceSyncs : {0, 2, MaxForceSyncs}],
     el : [paused : {FALSE}, ended : {FALSE}, rate10 : {20}, currentTime : {20000, 60000},
           drop : {"low", "warn"}, avc : BOOLEAN],
     t : {9000}, ev : EventNames, wait : Waits, lag : Lags]

InitEvent ==
    /\ Loaded
    /\ \E in \in EventCases :
          trial = [fn |-> "event", in |-> in, handled |-> FALSE, after |-> in.s,
                   done |-> FALSE, out |-> "none"]

\* The listener of ratechange, seeked or play: resetTracking().
DispatchEvent ==
    /\ trial.fn = "event"
    /\ ~trial.handled
    /\ trial' = [trial EXCEPT !.handled = TRUE,
                              !.after = resetTrackingAt(trial.in.s, trial.in.el, trial.in.t)]
    /\ UNCHANGED <<bindVars, injVars, envVars, openVars, loopVars, stepVars, histVars,
                   isAVPlayActive, host, enabled, streamData, life, currentVideoId, nNav,
                   syncInterval, liveSync, subtleSync, now, cpuStress>>

\* The element when the tick comes.
ElementAtTick ==
    [trial.in.el EXCEPT !.currentTime =
        @ + (trial.in.wait * trial.in.el.rate10) \div 10 - trial.in.lag]

EventTick ==
    /\ trial.fn = "event"
    /\ trial.handled
    /\ Try("event", timeoutAt(trial.after, ElementAtTick, trial.in.t + trial.in.wait))

NextEvent ==
    \/ DispatchEvent
    \/ EventTick

EventSpec == InitEvent /\ [][NextEvent]_vars

\* SubtlePlaybackSync on its own: the page, the element and the settings drive it.
NextSync ==
    \/ SyncAttach
    \/ \E in \in TickInputs : subtleSync.tickDue <= MaxTime /\ SyncTimer(in)
    \/ ResetTimeout
    \/ OnSeeked
    \/ OnRateChange

SyncSpec == InitPlay /\ [][NextSync]_vars

\* SubtlePlaybackSync on a device that keeps dropping frames: until a give-up
\* every tick reads a critical dropped-frame ratio.
NextBackoff ==
    \/ SyncAttach
    \/ \E in \in TickInputs :
          /\ subtleSync.tickDue <= BackoffHorizon
          /\ (in.eligible /\ in.drop = "crit") \/ subtleSync.gaveUpAt >= 0
          /\ SyncTimer(in)
    \/ ResetTimeout
    \/ OnSeeked
    \/ OnRateChange

BackoffSpec == InitPlay /\ [][NextBackoff]_vars

\* The orchestrator and SubtlePlaybackSync on one page: the corrector attaches
\* before, during or after a start sequence, the video ends or the user
\* navigates, and the setting of the corrector is switched.
NextCoop ==
    \/ HybridInit
    \/ \E loc \in Locations : PlayerFound(loc, TRUE, TRUE)
    \/ \E loc \in Locations : Navigate(loc, TRUE, TRUE)
    \/ \E sd \in Playable : StreamDataArrives(sd)
    \/ \E k \in 1..MaxNav : AttemptStartAVPlay(k, "none", TRUE)
    \/ \E k \in 1..MaxNav : PollTick(k, "none", TRUE)
    \/ \E seek \in Choices(HeadIs("second")) : \E oks \in Outcomes(seek) :
          RunSettled(TRUE, "none", TRUE, seek, oks)
    \/ HandleStateChange(0, TRUE, TRUE)
    \/ \E i \in Ids : PrepareSuccess(i)
    \/ RunPrepSettled
    \/ SyncAttach
    \/ SyncDetach
    \/ \E in \in TickInputs : in.eligible /\ in.drop = "low" /\ in.absDrift = 0 /\ ~in.avc
                                /\ now < CoopHorizon /\ SyncTimer(in)
    \/ \E v \in BOOLEAN : SyncConfigChange(v)

CoopSpec == InitPlay /\ [][NextCoop]_vars

\* The same, on a page that replaces the metadata between videos.
NextData ==
    \/ NextPoll
    \/ \E sd \in StreamShapes : StreamDataChanges(sd)

DataSpec == InitPlay /\ [][NextData]_vars

PollLoop ==
    /\ \A k \in 1..MaxNav : WF_vars(\E f \in FailPoints, okc \in BOOLEAN : PollTick(k, f, okc))
    /\ WF_vars(\E ok \in BOOLEAN, f \in FailPoints, okc \in BOOLEAN, seek \in BOOLEAN, oks \in BOOLEAN :
                  RunSettled(ok, f, okc, seek, oks))
    /\ WF_vars(RunPrepSettled)

PollSpec == InitPlay /\ [][NextPoll]_vars /\ PollLoop


(***************************************************************************)
(* The binding's contract.                                                 *)
(***************************************************************************)
Has(seq, x) == \E k \in 1..Len(seq) : seq[k] = x

\* C1: close() called in a state other than NONE leaves the state NONE, and
\* stop() (called directly or by onstreamcompleted) leaves it IDLE, whether
\* the native call returns or throws, and no exception leaves either.
C1_StopCloseDriveForward ==
    /\ (lastOp.op = "close" /\ pre # "NONE") => state = "NONE"
    /\ (lastOp.op \in {"stop", "onstreamcompleted"} /\ pre # "NONE") => state = "IDLE"
    /\ lastOp.op \in {"close", "stop", "onstreamcompleted"} => ~escaped

C1_Witness ==
    /\ lastOp.op = "close"
    /\ pre = "PLAYING"
    /\ nativeThrew
    /\ state = "NONE"

AllowedFrom(m) ==
    CASE m = "play" -> {"READY", "PAUSED"}
      [] m = "pause" -> {"PLAYING"}
      [] m = "seekTo" -> {"READY", "PLAYING", "PAUSED"}
      [] m = "setDisplayRect" -> BState \ {"NONE"}
      [] OTHER -> BState

\* C2: play(), pause(), seekTo() and setDisplayRect() called outside their
\* source states change no state, make no native call and do not throw.
C2_NoOpOutsideSourceStates ==
    (lastOp.op \in {"play", "pause", "seekTo", "setDisplayRect"}
        /\ pre \notin AllowedFrom(lastOp.op))
    => (state = pre /\ trail = <<>> /\ calls = <<>> /\ ~escaped)

C2_Witness ==
    /\ lastOp.op = "pause"
    /\ pre = "READY"
    /\ state = "READY"
    /\ calls = <<>>

Three == {"success", "error", "timeout"}

SignalOf(handler) ==
    CASE handler = "prepareSuccess" -> "success"
      [] handler = "prepareError" -> "error"
      [] handler = "prepareTimeout" -> "timeout"
      [] OTHER -> "none"

\* C4: of the success callback, the error callback and the 5 s timeout of one
\* open(), one that fires after another of them has fired changes no state and
\* settles nothing.
C4_PrepareSettlesOnce ==
    \A i \in Ids :
        (lastOp.id = i /\ SignalOf(lastOp.op) \in Three
            /\ op[i].fired \ {SignalOf(lastOp.op)} # {})
        => (state = pre /\ trail = <<>> /\ micro = <<>>)

C4_Witness ==
    /\ lastOp = [op |-> "prepareSuccess", id |-> 1]
    /\ op[1].fired = {"timeout", "success"}
    /\ op[1].stage = "rejected"
    /\ op[1].why = "timeout"
    /\ state = "NONE"

\* C5: the state is NONE when open() rejects, and after the last open() call
\* has rejected, a callback of its prepare or of its listener leaves it NONE.
C5_RejectedStaysNone ==
    /\ (lastOp.op \in {"openBody", "openDone"} /\ lastOp.id \in Ids
          /\ op[lastOp.id].stage = "rejected")
       => state = "NONE"
    /\ \A i \in Ids :
          (op[i].stage = "rejected" /\ nOpens = i /\ lastOp.id = i
             /\ lastOp.op \in {"prepareSuccess", "prepareError", "prepareTimeout", "onerror"})
          => state = "NONE"

Listed(t) ==
    \/ t.from = t.to
    \/ t.by = "open" /\ t.from = "NONE" /\ t.to = "IDLE"
    \/ t.by = "prepareSuccess" /\ t.from = "IDLE" /\ t.to = "READY"
    \/ t.by = "play" /\ t.from \in {"READY", "PAUSED"} /\ t.to = "PLAYING"
    \/ t.by = "pause" /\ t.from = "PLAYING" /\ t.to = "PAUSED"
    \/ t.by = "stop" /\ t.from # "NONE" /\ t.to = "IDLE"
    \/ t.by \in {"close", "openFailed"} /\ t.to = "NONE"

\* C6: every change of this.state is one of the listed transitions.
C6_OnlyListedTransitions == \A k \in 1..Len(trail) : Listed(trail[k])

C9_OneSharedInjection ==
    /\ nInj <= 1
    /\ Cardinality(injValues) <= 1
    /\ injectionPromise \in {"true", "false"} => injValues = {injectionPromise}
    /\ \A i \in Ids : op[i].injSeen \in {"true", "false"} => op[i].injSeen = injectionPromise
    /\ injectionPromise = "false" => signalled = Paths

C9_Witness ==
    /\ revision = "multi"
    /\ lastOp.op = "injectWebAPIs"
    /\ injectionPromise = "false"
    /\ nInj = 1
    /\ op[1].injSeen = "false"
    /\ op[2].injSeen = "false"

\* C7: when the native capability is unavailable, also after any pending
\* injection, open() rejects with the binding in NONE and without having made a
\* native call, and a start attempt of the orchestrator that ends on such a
\* rejection ends with isAVPlayActive false and the host element and its
\* containers as they were before the attempt.  Stated for the first start
\* attempt of the page, so that "as they were" is HostOriginal.
C7_UnsupportedLeavesHostUntouched ==
    /\ (lastOp.id \in Ids /\ lastOp.op \in {"startAVPlayWithData", "startSecond", "openBody"}
          /\ op[lastOp.id].stage = "rejected" /\ op[lastOp.id].why = "unsupported")
        => (state = "NONE" /\ calls = <<>>)
    /\ (lastOp.op = "startDone" /\ nNav = 1 /\ op[lastOp.id].why = "unsupported")
        => (~isAVPlayActive /\ host = HostOriginal /\ state = "NONE")

\* C10: every open() call eventually fulfils or rejects, even if the injection
\* script never signals and the native layer never invokes a prepare callback:
\* the 3 s timer ends the wait on injection, the 5 s timer the wait on prepare.
C10_EveryOpenSettles ==
    \A i \in Ids :
        (op[i].stage \in {"waitInj", "prepare"}) ~> (op[i].stage \in {"fulfilled", "rejected"})

\* An open() whose two waits were both ended by the timers.
C10_Witness ==
    \E i \in Ids :
        /\ op[i].stage = "rejected"
        /\ op[i].injSeen = "timeout"
        /\ op[i].why = "timeout"
        /\ op[i].fired = {"timeout"}


(***************************************************************************)
(* The orchestrator's contract.                                            *)
(***************************************************************************)
\* C11: a navigation event on a watch location whose identity is null or equal
\* to currentVideoId makes no native call and changes neither the binding, the
\* orchestrator, the host element nor the timers; and handleNavigation arms a
\* start attempt only with a non-null identity different from currentVideoId,
\* which becomes currentVideoId.
C11_ActsOnlyOnIdentityChange ==
    [][lastOp'.op = "handleNavigation" =>
        /\ \A loc \in Locations :
              (loc.watch /\ loc.vid \in {"null", currentVideoId} /\ Navigate(loc, TRUE, TRUE)) =>
                  /\ calls' = <<>>
                  /\ UNCHANGED <<state, sess, timers, nNav, currentVideoId, isAVPlayActive,
                                 host, syncInterval, liveSync>>
        /\ (timers' # timers \/ nNav' # nNav) =>
              /\ currentVideoId' \in VideoIds \ {currentVideoId}
              /\ timers' = Append(timers, Timer("settle", nNav', SettleDelay))]_vars

\* A navigation event with the identity that is playing left it playing.
C11_Witness ==
    /\ lastOp = [op |-> "handleNavigation", id |-> 0]
    /\ isAVPlayActive
    /\ state = "PLAYING"
    /\ currentVideoId # "null"

OpenSteps == {"startAVPlayWithData", "startSecond", "openBody"}

\* C12: an identity change that finds native playback going (binding PLAYING or
\* PAUSED) stops and closes it, in that order, in the handler that arms the
\* settle timer; an open() of a start attempt exists only once the settle timer
\* of its identity change has fired; and such an open() that runs with the
\* binding not in NONE calls the native close before the native open.
C12_TeardownBeforeStart ==
    /\ (lastOp.op = "handleNavigation" /\ lastOp.id >= 1 /\ pre \in {"PLAYING", "PAUSED"})
          => (calls = <<"stop", "close">> /\ state = "NONE")
    /\ \A i \in Ids : op[i].nav >= 1 => ~Armed("settle", op[i].nav)
    /\ (lastOp.op \in OpenSteps /\ lastOp.id \in Ids /\ op[lastOp.id].nav >= 1
           /\ pre # "NONE" /\ Has(calls, "open"))
          => \E k \in 1..Len(calls) : calls[k] = "close" /\ calls[k + 1] = "open"

InFlight == {i \in Ids : op[i].nav >= 1 /\ op[i].stage \in {"waitInj", "prepare"}}

\* C13: a start sequence begins only for the latest identity change, not for one
\* that a later identity change has superseded during the settle delay or the
\* poll, and the start sequences never have two open() calls pending at once.
C13_StartOnlyForCurrentIdentity ==
    /\ lastOp.op = "startAVPlayWithData" => op[lastOp.id].nav = nNav
    /\ Cardinality(InFlight) <= 1

\* C14: a start attempt that runs while enableAVPlay is off makes no native
\* call, calls no open(), arms no poll timer (its own settle timer is the only
\* timer that goes), and leaves the binding, the host element's overrides and
\* isAVPlayActive as they were.
C14_FlagOffAborts ==
    [][(lastOp'.op = "attemptStartAVPlay" /\ ~enabled) =>
          /\ calls' = <<>>
          /\ timers' = Without(timers, "settle", lastOp'.id)
          /\ UNCHANGED <<state, sess, host, isAVPlayActive, openVars, micro, syncInterval,
                         liveSync>>]_vars

\* The attempt ran with the flag off although metadata with a server locator
\* was there.
C14_Witness ==
    /\ lastOp.op = "attemptStartAVPlay"
    /\ ~enabled
    /\ streamData # {}
    /\ Data.server
    /\ nOpens = 0
    /\ host = HostOriginal

PollTimers == {j \in 1..Len(timers) : timers[j].kind = "poll"}

C17_AbortLeavesHostUntouched ==
    [][(lastOp'.op = "startAborted" /\ Data.adaptiveFormats) =>
          /\ createDashManifest(Data.video, Data.audio) = "null"
          /\ ~Data.video \/ ~Data.audio
          /\ host' = host
          /\ nOpens' = nOpens
          /\ calls' = <<>>
          /\ ~isAVPlayActive']_vars

\* The part of C17 that is about the aborted start sequence itself.
C17_AbortChangesNothing ==
    [][(lastOp'.op = "startAborted" /\ Data.adaptiveFormats) =>
          /\ createDashManifest(Data.video, Data.audio) = "null"
          /\ ~Data.video \/ ~Data.audio
          /\ calls' = <<>>
          /\ UNCHANGED <<host, openVars, state, sess, isAVPlayActive>>]_vars

\* The end-to-end scenario: the first identity change is to "abc123", and the
\* metadata has a video and an audio stream and no serverAbrStreamingUrl.
Scenario ==
    /\ nNav = 1
    /\ currentVideoId = "abc123"
    /\ streamData # {}
    /\ Data.adaptiveFormats /\ ~Data.server /\ Data.video /\ Data.audio

\* C18: in the end-to-end scenario every open() call is one of the start
\* sequence with the synthesized manifest locator; the start sequence calls the
\* native play only in state READY, after the prepare of the open() it awaited
\* has succeeded; and when its last open() is fulfilled and no native call
\* throws, it ends with the binding PLAYING, isAVPlayActive true, the host
\* element muted and the host element's play() called.
C18_EndToEnd ==
    Scenario =>
        /\ \A i \in Ids : op[i].stage # "unused" =>
                (op[i].caller \in {"first", "second"} /\ op[i].nav = 1)
        /\ (lastOp.op \in {"startSecond", "startDone"} /\ Has(calls, "play")) =>
                /\ pre = "READY"
                /\ calls[1] = "play"
                /\ \E i \in Ids : op[i].stage = "fulfilled" /\ "success" \in op[i].fired
        /\ (lastOp.op = "startDone" /\ op[lastOp.id].stage = "fulfilled" /\ ~nativeThrew) =>
                /\ op[lastOp.id].caller = "second"
                /\ state = "PLAYING"
                /\ isAVPlayActive
                /\ host.muted
                /\ host.played

\* The scenario has run to its end.
C18_Witness ==
    /\ Scenario
    /\ enabled
    /\ lastOp.op = "startDone"
    /\ state = "PLAYING"
    /\ isAVPlayActive
    /\ host.played
    /\ \A i \in Ids : op[i].stage = "fulfilled"

\* No override of the start sequence is left on the host page.
Restored(h) ==
    /\ ~h.muted
    /\ h.opacity = ""
    /\ h.visibility = ""
    /\ h.bgVideo = "" /\ h.bgPlayer = "" /\ h.bgApi = ""

\* C19: after a teardown that found the native player active, and after a
\* start sequence that failed (the open() it awaited was rejected, or a native
\* call of its last step threw), the host element is not muted and its opacity,
\* its visibility and the three backgrounds are the empty string.
C19_OverridesAreRestored ==
    /\ (lastOp.op \in {"handleNavigation", "handleConfigChange", "handleStateChange"}
            /\ Has(calls, "stop") /\ ~isAVPlayActive) => Restored(host)
    /\ (lastOp.op = "startDone" /\ (op[lastOp.id].stage = "rejected" \/ nativeThrew))
            => Restored(host)

\* What restoreHTML5() does restore, where the source calls it.
C19_RestoredButVisibility ==
    /\ (lastOp.op \in {"handleNavigation", "handleConfigChange", "handleStateChange"}
            /\ Has(calls, "stop") /\ ~isAVPlayActive) => Restored([host EXCEPT !.visibility = ""])
    /\ (lastOp.op = "startDone" /\ op[lastOp.id].caller = "second"
            /\ (op[lastOp.id].stage = "rejected" \/ nativeThrew))
            => Restored([host EXCEPT !.visibility = ""])

\* The handlers that call stopAVPlay().
StopSteps == {"handleNavigation", "handleConfigChange", "handleStateChange"}

Elsewhere == [watch |-> FALSE, vid |-> "null"]

StateCodes == 0..3

\* C21: a state-change event makes native calls only while isAVPlayActive is
\* set, and then only play for code 1, only pause for code 2 and only stop and
\* close for code 0; while isAVPlayActive is clear an event of any code leaves
\* the binding and the host element as they were; and an event of another
\* code makes no native call and changes nothing.
C21_MirrorsOnlyWhileActive ==
    [][/\ lastOp'.op = "handleStateChange" =>
             /\ isAVPlayActive
             /\ lastOp'.id = 1 => (calls' \in {<<>>, <<"play">>} /\ UNCHANGED <<host, isAVPlayActive>>)
             /\ lastOp'.id = 2 => (calls' \in {<<>>, <<"pause">>} /\ UNCHANGED <<host, isAVPlayActive>>)
             /\ lastOp'.id = 0 =>
                   /\ calls' = IF state = "NONE" THEN <<>> ELSE <<"stop", "close">>
                   /\ ~isAVPlayActive'
       /\ \A code \in StateCodes :
             ((~isAVPlayActive \/ code = 3) /\ lastOp'.op \in {"other", "handleStateChange"}
                  /\ HandleStateChange(code, TRUE, TRUE)) =>
                 /\ calls' = <<>>
                 /\ UNCHANGED <<state, sess, host, isAVPlayActive, openVars, syncInterval,
                                liveSync>>]_vars

\* The host player reported "paused" while the native player was playing.
C21_Witness ==
    /\ lastOp = [op |-> "handleStateChange", id |-> 2]
    /\ pre = "PLAYING"
    /\ state = "PAUSED"
    /\ calls = <<"pause">>
    /\ isAVPlayActive

(***************************************************************************)
(* The orchestrator and the drift corrector.                               *)
(***************************************************************************)
\* C22: while isAVPlayActive is true the loop of SubtlePlaybackSync is not
\* running: no timeout of _schedule is scheduled, so no tick executes and no
\* tick writes currentTime, in every ordering of attach() and the start
\* sequence.
C22_CorrectorSuspended ==
    isAVPlayActive => (~subtleSync.running /\ subtleSync.ticks = 0)

\* The other half of C22: the step that clears isAVPlayActive leaves the loop
\* of an existing corrector running, with enabled equal to the setting.
C22_ResumedByTeardown ==
    [][(isAVPlayActive /\ ~isAVPlayActive' /\ subtleSync.exists)
          => (subtleSync'.running /\ subtleSync'.ticks > 0
                /\ subtleSync'.enabled = cpuStress)]_vars

\* C23: after the teardown that a navigation off the watch pages runs, and
\* after detach() of SubtlePlaybackSync, no periodic timer of that component
\* is scheduled: no poll interval of attemptStartAVPlay, no sync interval of
\* startSyncLoop, and no timeout of _schedule.
C23_NoTimerOutlivesOwner ==
    [][/\ (\E loc \in Locations : ~loc.watch /\ Navigate(loc, TRUE, TRUE))
            => (PollTimers' = {} /\ liveSync' = {})
       /\ SyncDetach => subtleSync'.ticks = 0]_vars

\* The parts of C23 about the sync intervals and about the tick timer.
C23_SyncIntervalsCleared ==
    [][(\E loc \in Locations : ~loc.watch /\ Navigate(loc, TRUE, TRUE)) => liveSync' = {}]_vars

C23_TickTimerCleared ==
    [][SyncDetach => (subtleSync'.ticks = 0 /\ ~subtleSync'.running)]_vars

(***************************************************************************)
(* The drift corrector.                                                    *)
(***************************************************************************)
\* C24: on consecutive ticks that pass the cooldowns with a dropped-frame
\* ratio above droppedFrameRateCritical, at most MaxForceSyncs forced
\* corrections are written in a row, also when the element dispatches seeked
\* after each of them.
C24_ForcedCorrectionsBounded ==
    subtleSync.forcedRun <= MaxForceSyncs

\* The rest of C24: the counter never exceeds MaxForceSyncs, and the tick
\* that gives up (it moves lastAdjustmentTime ahead of the clock) found the
\* counter at MaxForceSyncs, writes nothing, resets the counter to 0 and
\* starts a wait of GiveUpWait.
C24_GiveUpAtTheBound ==
    [][lastOp'.op = "tick"
          => /\ subtleSync'.consecutiveForceSyncs <= MaxForceSyncs
             /\ (subtleSync'.lastAdjustmentTime # subtleSync.lastAdjustmentTime
                    /\ subtleSync'.lastAdjustmentTime > now')
                  => (/\ subtleSync.consecutiveForceSyncs = MaxForceSyncs
                      /\ subtleSync'.wrote = "none"
                      /\ subtleSync'.consecutiveForceSyncs = 0
                      /\ subtleSync'.lastAdjustmentTime = now' + GiveUpWait)]_vars

\* C25: after a give-up no correction of any tier writes currentTime before
\* GiveUpWait has passed, whatever the ticks read and whatever events the
\* element dispatches in between.
C25_NoCorrectionDuringGiveUp ==
    subtleSync.wrote # "none"
        => (subtleSync.gaveUpAt = -1 \/ now >= subtleSync.gaveUpAt + GiveUpWait)

\* A tick that runs inside the wait of a give-up.
C25_Witness ==
    /\ subtleSync.gaveUpAt >= 0
    /\ now > subtleSync.gaveUpAt
    /\ now < subtleSync.gaveUpAt + GiveUpWait
    /\ lastOp.op = "tick"

\* A rate change inside the wait, and a correction after it.
C25_EventInsideTheWait ==
    /\ subtleSync.gaveUpAt >= 0
    /\ now < subtleSync.gaveUpAt + GiveUpWait
    /\ lastOp.op = "onRateChange"

C25_CorrectionAfterTheWait ==
    subtleSync.gaveUpAt >= 0 /\ subtleSync.wrote # "none"

\* C26: with rate 2.0, baseline 10.0 s, 1.0 s of elapsed time and the element
\* at 10.2 s, the drift is 1.8 s, the tier at the thresholds of the
\* constructor is the aggressive one and the position written is
\* actual + 0.4 x drift.
C26_ExampleIsAggressive ==
    (/\ trial.fn = "tick"
     /\ trial.done
     /\ trial.in.rate10 = 20 /\ trial.in.baseline = 10000 /\ trial.in.elapsed = 1000
     /\ trial.in.actual = 10200 /\ ~trial.in.avc)
        => (/\ trial.out.drift = 1800
            /\ trial.out.tier = "AGGRESSIVE"
            /\ trial.out.target = trial.in.actual + (4 * trial.out.drift) \div 10)

\* What the code computes for the example of C26: the drift of 1.8 s, the hard
\* jump, and the expected position 12.0 s as the position written.
C26_ExampleIsHardJump ==
    (/\ trial.fn = "tick"
     /\ trial.done
     /\ trial.in.rate10 = 20 /\ trial.in.baseline = 10000 /\ trial.in.elapsed = 1000
     /\ trial.in.actual = 10200 /\ ~trial.in.avc)
        => (/\ trial.out.drift = 1800
            /\ trial.out.tier = "HARD"
            /\ trial.out.target = 12000)

(***************************************************************************)
(* The stream selectors.                                                   *)
(***************************************************************************)
\* A descriptor has a url or a cipher that gives one.
Resolvable(f) == f.url # "" \/ f.cipher = "valid"

Tried(fn) == trial.fn = fn /\ trial.done

\* The descriptors of the trial that are of the type and resolvable, by index.
Candidates(type) ==
    {i \in 1..Len(trial.in.formats) :
        trial.in.formats[i].mimeType.type = type /\ Resolvable(trial.in.formats[i])}

\* The selector returned the descriptor at one of the indexes.
PickedFrom(indexes) ==
    /\ trial.out.pick # <<>>
    /\ \E i \in indexes : trial.out.pick[1] = trial.out.formats[i]

\* C27: with preferred quality 720 and nothing excluded, selectBestVideoStream
\* returns a resolvable video descriptor of the greatest height not above 720
\* and, at that height, of the greatest fps; the one of the greatest height
\* if none is at or below 720; null if there is no resolvable video descriptor.
C27_PreferredHeight ==
    (/\ Tried("selectBestVideoStream")
     /\ trial.in.cfg.preferredVideoQuality = "720"
     /\ trial.in.cfg.disabled = {}
     /\ ~trial.in.cfg.disable60fps)
        => LET fs == trial.in.formats
               all == Candidates("video")
               low == {i \in all : fs[i].height <= 720}
           IN  IF all = {} THEN trial.out.pick = <<>>
               ELSE IF low # {}
               THEN /\ PickedFrom(low)
                    /\ \A j \in low :
                          \/ fs[j].height < trial.out.pick[1].height
                          \/ /\ fs[j].height = trial.out.pick[1].height
                             /\ fs[j].fps <= trial.out.pick[1].fps
               ELSE /\ PickedFrom(all)
                    /\ \A j \in all : fs[j].height <= trial.out.pick[1].height

\* Of two descriptors at 720 the one with 60 fps is returned, past one at 1440
\* and past one whose url comes from its cipher.
C27_Witness ==
    /\ Tried("selectBestVideoStream")
    /\ trial.in.cfg.preferredVideoQuality = "720"
    /\ trial.in.cfg.disabled = {}
    /\ ~trial.in.cfg.disable60fps
    /\ Len(trial.in.formats) = 3
    /\ trial.in.formats[1].height = 720 /\ trial.in.formats[1].fps = 30
    /\ trial.in.formats[1].url = "direct"
    /\ trial.in.formats[2].height = 1440 /\ trial.in.formats[2].url = "direct"
    /\ trial.in.formats[3].height = 720 /\ trial.in.formats[3].fps = 60
    /\ trial.in.formats[3].cipher = "valid"
    /\ trial.out.pick = <<trial.out.formats[3]>>

\* The video descriptors that the filters of selectBestVideoStream let through.
Surviving ==
    {i \in Candidates("video") :
        /\ trial.in.formats[i].mimeType.codec \notin trial.in.cfg.disabled
        /\ ~(trial.in.cfg.disable60fps /\ trial.in.formats[i].fps > 30)}

\* C28: with preferred quality "auto", selectBestVideoStream returns the
\* surviving video descriptor of the greatest height, whatever the heights.
C28_AutoIsHighest ==
    (Tried("selectBestVideoStream") /\ trial.in.cfg.preferredVideoQuality = "auto")
        => IF Surviving = {} THEN trial.out.pick = <<>>
           ELSE /\ PickedFrom(Surviving)
                /\ \A j \in Surviving : trial.in.formats[j].height <= trial.out.pick[1].height

\* What the code does for "auto": the greatest height not above DefaultHeight,
\* and the greatest height when all are above it.
C28_AutoIsHighestUpTo1080 ==
    (Tried("selectBestVideoStream") /\ trial.in.cfg.preferredVideoQuality = "auto")
        => LET low == {i \in Surviving : trial.in.formats[i].height <= DefaultHeight}
           IN  IF Surviving = {} THEN trial.out.pick = <<>>
               ELSE IF low # {}
               THEN /\ PickedFrom(low)
                    /\ \A j \in low : trial.in.formats[j].height <= trial.out.pick[1].height
               ELSE /\ PickedFrom(Surviving)
                    /\ \A j \in Surviving :
                          trial.in.formats[j].height <= trial.out.pick[1].height

\* C29: selectBestAudioStream returns the resolvable Opus descriptor of the
\* greatest bitrate when there is one, whatever the bitrate of the others;
\* the resolvable audio descriptor of the greatest bitrate when none is Opus;
\* null when there is no resolvable audio descriptor.
C29_OpusFirst ==
    Tried("selectBestAudioStream")
        => LET fs == trial.in.formats
               all == Candidates("audio")
               opus == {i \in all : fs[i].mimeType.codec = "opus"}
           IN  IF all = {} THEN trial.out.pick = <<>>
               ELSE IF opus # {}
               THEN /\ PickedFrom(opus)
                    /\ \A j \in opus : fs[j].bitrate <= trial.out.pick[1].bitrate
               ELSE /\ PickedFrom(all)
                    /\ \A j \in all : fs[j].bitrate <= trial.out.pick[1].bitrate

\* Opus at 128 is returned, past Opus at 64 and past mp4a at 256.
C29_Witness ==
    /\ Tried("selectBestAudioStream")
    /\ Len(trial.in.formats) = 3
    /\ \A i \in 1..3 : trial.in.formats[i].url = "direct"
    /\ trial.in.formats[1].mimeType.codec = "mp4a" /\ trial.in.formats[1].bitrate = 256
    /\ trial.in.formats[2].mimeType.codec = "opus" /\ trial.in.formats[2].bitrate = 64
    /\ trial.in.formats[3].mimeType.codec = "opus" /\ trial.in.formats[3].bitrate = 128
    /\ trial.out.pick = <<trial.in.formats[3]>>

\* C30: the selectors only read the metadata record: after a selection every
\* descriptor of adaptiveFormats has the fields and values it had before.
C30_RecordIsOnlyRead ==
    (Tried("selectBestVideoStream") \/ Tried("selectBestAudioStream"))
        => trial.out.formats = trial.in.formats

\* What a selection changes of the record: the url of a descriptor that had
\* none and has a cipher, and nothing else.
C30_OnlyDecipheredUrls ==
    (Tried("selectBestVideoStream") \/ Tried("selectBestAudioStream"))
        => /\ Len(trial.out.formats) = Len(trial.in.formats)
           /\ \A i \in 1..Len(trial.in.formats) :
                 LET before == trial.in.formats[i]
                     after == trial.out.formats[i]
                 IN  IF before.url = "" /\ before.cipher = "valid"
                     THEN after = [before EXCEPT !.url = "deciphered"]
                     ELSE after = before

(***************************************************************************)
(* The synthesized manifest.                                               *)
(***************************************************************************)
\* C31: at most one blob locator of a synthesized manifest is valid at a
\* time: after any sequence of start attempts only the locator of the latest
\* attempt that made one still resolves.
C31_OneLocatorAtATime ==
    trial.fn = "createDashManifest" => Cardinality(trial.valid) <= 1

\* What the code keeps of C31: every attempt with both streams gets a locator
\* of its own, and the locator made last is among the valid ones.
C31_FreshLocatorPerAttempt ==
    (trial.fn = "createDashManifest" /\ trial.attempts > 0)
        => /\ (trial.manifestUrl = "null")
                 <=> ~(trial.in[trial.attempts].video /\ trial.in[trial.attempts].audio)
           /\ trial.manifestUrl # "null" => trial.manifestUrl \in trial.valid
           /\ \A u \in trial.valid : u[2] <= trial.attempts

(***************************************************************************)
(* One tick of the drift corrector.                                        *)
(***************************************************************************)
Ticked == trial.fn = "tick" /\ trial.done

\* The tick is one that _tick skips.
Skipped ==
    \/ ~trial.in.s.enabled
    \/ trial.in.el.paused
    \/ trial.in.el.ended
    \/ trial.in.el.rate10 <= 12
    \/ trial.in.t - trial.in.s.lastAdjustmentTime < MinAdjustmentIntervalAggressive

\* C32: a tick with the corrector disabled, the element paused or ended, a
\* playbackRate of at most 1.2 or the last adjustment less than the minimum
\* cooldown ago writes nothing to currentTime and leaves lastAdjustmentTime,
\* the baseline and consecutiveForceSyncs as they were.
C32_SkippedTickChangesNothing ==
    (Ticked /\ Skipped)
        => /\ trial.out.wrote = "none"
           /\ trial.out.el = trial.in.el
           /\ trial.out.s = trial.in.s

\* A paused element far off its expected position, past the cooldown.
C32_Witness ==
    /\ Ticked
    /\ trial.in.s.enabled
    /\ trial.in.el.paused /\ ~trial.in.el.ended
    /\ trial.in.el.rate10 = 20
    /\ trial.in.el.currentTime = 10200
    /\ trial.in.el.drop = "crit"
    /\ trial.in.t = 9000
    /\ trial.out.el.currentTime = 10200

\* The tick passes every check of _tick before the drift and its drop ratio
\* is not critical.
Escalates ==
    /\ Ticked
    /\ ~Skipped
    /\ trial.in.el.drop # "crit"

\* The drift that the tick computes, its magnitude, and the thresholds for
\* the codec of the element.
Drift == 10000 + (1000 * trial.in.el.rate10) \div 10 - trial.in.el.currentTime

Magnitude == IF Drift < 0 THEN -Drift ELSE Drift

HardLimit == IF trial.in.el.avc THEN HardJumpThresholdAVC ELSE HardJumpThreshold

AggressiveLimit == IF trial.in.el.avc THEN AggressiveThresholdAVC ELSE AggressiveDriftThreshold

\* C33: on a tick that passes the checks with a drop ratio that is not
\* critical, one action is taken by the magnitude of the drift: above the
\* reset threshold the emergency reset; else above the hard-jump threshold
\* the expected position is written; else above the aggressive threshold, or
\* above the warning threshold under stress, actual + 0.4 x drift is
\* written; else above the warning threshold a subtle correction; else
\* nothing is written.
C33_EscalationByMagnitude ==
    Escalates
        => LET before == trial.in.el.currentTime
               after == trial.out.el.currentTime
           IN  IF Magnitude > ResetThreshold
               THEN /\ trial.out.wrote = "RESET"
                    /\ trial.out.el.paused
                    /\ after = before + ResetNudge
                    /\ trial.out.s.lastAdjustmentTime = trial.in.s.lastAdjustmentTime
               ELSE IF Magnitude > HardLimit
               THEN /\ trial.out.wrote = "HARD"
                    /\ after = before + Drift
                    /\ ~trial.out.el.paused
               ELSE IF \/ Magnitude > AggressiveLimit
                       \/ (Magnitude > WarningDriftThreshold /\ trial.in.el.drop = "warn")
               THEN /\ trial.out.wrote = "AGGRESSIVE"
                    /\ 10 * (after - before) = 4 * Drift
                    /\ ~trial.out.el.paused
               ELSE IF Magnitude > WarningDriftThreshold
               THEN /\ trial.out.wrote = "SUBTLE"
                    /\ after # before
                    /\ ~trial.out.el.paused
               ELSE /\ trial.out.wrote = "none"
                    /\ trial.out.el = trial.in.el

\* A drift of 1.8 s with the vp9 thresholds: the hard jump to 12.0 s.
C33_Witness ==
    /\ Escalates
    /\ ~trial.in.el.avc
    /\ trial.in.el.rate10 = 20
    /\ trial.in.el.currentTime = 10200
    /\ trial.out.wrote = "HARD"
    /\ trial.out.el.currentTime = 12000

\* C34: in the subtle tier the position changes in the direction of the
\* drift by min(0.2 x |drift|, 50 ms): never by more than 50 ms nor by more
\* than a fifth of the drift.
C34_SubtleIsCapped ==
    (Ticked /\ trial.out.wrote = "SUBTLE")
        => LET change == trial.out.el.currentTime - trial.in.el.currentTime
               size == IF change < 0 THEN -change ELSE change
           IN  /\ (change > 0) = (Drift > 0)
               /\ size = (IF 2 * Magnitude <= 10 * MaxSubtleCorrection
                          THEN (2 * Magnitude) \div 10
                          ELSE MaxSubtleCorrection)
               /\ size <= MaxSubtleCorrection
               /\ 10 * size <= 2 * Magnitude

\* A drift of -0.4 s: a fifth of it is 80 ms, the position moves back by 50 ms.
C34_Witness ==
    /\ Ticked
    /\ trial.out.wrote = "SUBTLE"
    /\ trial.in.el.currentTime = 12400
    /\ trial.out.el.currentTime = 12350

\* C35: a ratechange, seeked or play event of the attached element sets the
\* baseline to the time of the event and the position of the element and
\* zeroes the consecutive counters, and the first tick after it acts on the
\* drift of the time since the event alone: nothing is written when the
\* element is within the warning threshold of that, and what is written is
\* computed from the position at the event.
C35_EventResetsBaseline ==
    (trial.fn = "event" /\ trial.handled)
        => /\ trial.after.lastBaselineTime = trial.in.t
           /\ trial.after.lastBaselineCurrentTime = trial.in.el.currentTime
           /\ trial.after.consecutiveHighDrifts = 0
           /\ trial.after.consecutiveForceSyncs = 0
           /\ trial.done
                => LET expected == trial.in.el.currentTime
                                       + (trial.in.wait * trial.in.el.rate10) \div 10
                       before == expected - trial.in.lag
                       after == trial.out.el.currentTime
                   IN  /\ trial.in.lag <= WarningDriftThreshold
                            => (trial.out.wrote = "none" /\ after = before)
                       /\ trial.in.lag > WarningDriftThreshold
                            => /\ trial.out.wrote \in {"SUBTLE", "AGGRESSIVE"}
                               /\ after > before
                               /\ after <= expected
                       /\ trial.out.wrote = "AGGRESSIVE"
                            => 10 * (after - before) = 4 * trial.in.lag

\* A seek to 60 s with a baseline of 10 s taken 9 s before: the tick 1 s
\* later finds the element at 62 s and writes nothing.
C35_Witness ==
    /\ trial.fn = "event"
    /\ trial.done
    /\ trial.in.ev = "seeked"
    /\ trial.in.s.lastBaselineTime = 0
    /\ trial.in.s.consecutiveForceSyncs = MaxForceSyncs
    /\ trial.in.el.currentTime = 60000
    /\ trial.in.wait = 1000
    /\ trial.in.lag = 0
    /\ trial.out.wrote = "none"
    /\ trial.out.el.currentTime = 62000

\* C36: whenever this.state is NONE the native player is closed: no native
\* session opened by an open() is still open.
C36_NoneMeansClosed == state = "NONE" => sess = 0

\* The part that holds: close() leaves the state NONE with the native player
\* closed whenever its native close call does not throw.
C36_CloseCloses ==
    (lastOp.op = "close" /\ Has(calls, "close") /\ ~nativeThrew) => (state = "NONE" /\ sess = 0)

\* The step is the success callback, the error callback or the 5 s timer of
\* the prepare of open() i, or the catch block of open() i run by the
\* rejection one of them made.
PrepareStepOf(i) ==
    /\ lastOp.id = i
    /\ \/ lastOp.op \in {"prepareSuccess", "prepareError", "prepareTimeout"}
       \/ lastOp.op = "openDone" /\ op[i].why \in {"error", "timeout"}

\* C37: a prepare callback or prepare timeout of an open() leaves this.state
\* as it is once a later open() has been called.
C37_StalePrepareIsInert ==
    \A i \in Ids : (PrepareStepOf(i) /\ nOpens > i) => state = pre

\* The case the claim names: the 5 s timer of the first open() has taken the
\* state to NONE while the session of the second open() was READY, PLAYING
\* or PAUSED.
C37_LaterSessionLost ==
    /\ PrepareStepOf(1)
    /\ nOpens > 1
    /\ op[1].why = "timeout"
    /\ sess = 2
    /\ pre \in {"READY", "PLAYING", "PAUSED"}
    /\ state = "NONE"

\* C38: webapis.avplay.open is called only while enableAVPlay is on, and
\* isAVPlayActive is true only while it is on.
C38_NoStartWhileOff ==
    /\ Has(calls, "open") => enabled
    /\ isAVPlayActive => enabled

\* The part that holds: the settle timer of an attempt that finds the flag
\* off makes no native call.
C38_SettleTimerChecksFlag ==
    (lastOp.op = "attemptStartAVPlay" /\ ~enabled) => calls = <<>>

\* A start sequence that was waiting when the flag was turned off has set
\* isAVPlayActive.
C38_ActiveWhileOff ==
    /\ lastOp.op = "startDone"
    /\ ~enabled
    /\ isAVPlayActive
    /\ state = "PLAYING"

\* The page has gone off the watch pages and handleNavigation has run
\* stopAVPlay().
Leaves ==
    /\ lastOp' = [op |-> "handleNavigation", id |-> 0]
    /\ \E loc \in Locations, ok1 \in BOOLEAN, ok2 \in BOOLEAN :
          ~loc.watch /\ Navigate(loc, ok1, ok2)

\* Native playback is torn down: isAVPlayActive is false, this.state is NONE
\* and the host element is neither muted nor hidden.
Torn ==
    /\ ~isAVPlayActive
    /\ state = "NONE"
    /\ ~host.muted
    /\ host.opacity = ""
    /\ host.visibility = ""

\* C39: the teardown that a navigation off the watch pages runs leaves
\* isAVPlayActive false, this.state NONE and the host element unmuted and
\* visible, whatever start attempt is in flight.  (The claim goes on to the
\* states that follow, up to the next identity change; this is its first
\* state.)
C39_TornDownOnLeaving == [][Leaves => Torn']_vars

\* The teardown has come while the prepare of a start sequence was pending and
\* has closed nothing.
C39_LeftWithPreparePending ==
    /\ lastOp = [op |-> "handleNavigation", id |-> 0]
    /\ calls = <<>>
    /\ InFlight # {}
    /\ state = "IDLE"
    /\ sess # 0
    /\ host.visibility = "hidden"

\* C40: when startAVPlayWithData() has returned with this.state READY,
\* PLAYING or PAUSED, isAVPlayActive is true, so that the next stopAVPlay()
\* stops and closes the native player.
C40_PlayingOnlyIfActive ==
    (lastOp.op = "startDone" /\ state \in {"READY", "PLAYING", "PAUSED"}) => isAVPlayActive

\* The part that holds: a start sequence on the manifest path whose second
\* open() was fulfilled and whose play() did not throw returns with
\* isAVPlayActive true.
C40_ManifestPathIsActive ==
    (lastOp.op = "startDone" /\ lastOp.id \in Ids /\ op[lastOp.id].caller = "second"
        /\ op[lastOp.id].stage = "fulfilled" /\ Has(calls, "play") /\ ~nativeThrew)
       => isAVPlayActive

\* The server-locator path has returned with the native player playing and
\* isAVPlayActive false.
C40_ServerPathNotActive ==
    /\ lastOp.op = "startDone"
    /\ op[lastOp.id].caller = "server"
    /\ state = "PLAYING"
    /\ sess = lastOp.id
    /\ ~isAVPlayActive

====
